---- MODULE Spec2Model ----
(***************************************************************************)
(* Model of the pi-hooks extensions: the git checkpoint extension          *)
(* (checkpoint/checkpoint.ts with the checkpoint core functions) and the   *)
(* permission gate (autonomy/autonomy.ts).                                 *)
(*                                                                         *)
(* The module holds several specifications over one set of variables:      *)
(*   SpecClosest    the closest-checkpoint selection (pure function)       *)
(*   SpecBash       one bash tool_call through the permission gate         *)
(*   SpecGate       a session of the permission gate                       *)
(* Each specification moves only its own variables; the others stay at     *)
(* their idle values.                                                      *)
(***************************************************************************)
EXTENDS Integers, Sequences, FiniteSets, TLC

VARIABLES
    \* ---- closest-checkpoint selection
    checkpoints,            \* the candidate list handed to the selection
    targetTs,               \* the target entry's timestamp
    closest,                \* the selected checkpoint, NoneRec before the call
    \* ---- permission gate (autonomy.ts)
    autonomyLevel,          \* let autonomyLevel
    savedLevel,             \* autonomyLevel key of the settings file
    sessionDeniedCommands,  \* let sessionDeniedCommands
    hasUI,                  \* ctx.hasUI
    command,                \* event.input.command of the call, as words
    levelAtCall,            \* autonomyLevel when the call arrived
    gatePrompt,             \* which ctx.ui.select the handler showed
    gateOptions,            \* the options of that select
    gateChoice,             \* what the user picked
    gateResult,             \* "allow" (undefined) or "block"
    gateReason,             \* reason of a block
    gateNotified,           \* ctx.ui.notify was called by the handler
    gatePc,                 \* "ready" before the handler ran, "done" after
    toolName,               \* event.toolName of the call
    filePath,               \* event.input.path of a write or edit call
    answered,               \* the user's last answer to the dangerous-command
                            \* prompt of each command
    \* ---- the git repository
    repo,                   \* [head, index, worktree]
    refs,                   \* refs/pi-checkpoints/<id> -> commit object
    now,                    \* the clock read by Date.now()
    \* ---- restoreCheckpoint applied to a repository
    restoreCp,              \* the checkpoint being restored
    restoreCount,           \* completed runs of restoreCheckpoint
    restoreStatus,          \* "none", "ok" or "failed" (a git command threw)
    afterFirst,             \* the repository after the first completed run
    \* ---- createCheckpoint followed by loadCheckpointFromRef
    created,                \* what createCheckpoint returned
    loaded,                 \* what loadCheckpointFromRef returned for its ref
    \* ---- the checkpoint extension (checkpoint.ts)
    isRepo,                 \* the working directory is a git repository
    hostSession,            \* the session ctx.sessionManager holds
    state,                  \* CheckpointState
    turnTasks,              \* the async bodies started by turn_start
    preload,                \* the background preload started by session_start
    prompt,                 \* the running handleRestorePrompt and its load
    restoreLog,             \* what the last saveAndRestore did
    returnedEarly,          \* handlers that left at their gitAvailable test
                            \* since the last session_start
    \* ---- one call of loadAllCheckpoints
    loadJob,                \* its arguments, its position and its results
    \* ---- the parentSession walk of loadSessionChainCheckpoints
    chainFiles,             \* what the first line of each session file holds
    walk,                   \* the header given, the loop's variables, its position
    \* ---- ralph_loop (ralph-loop/index.ts)
    loop,                   \* one execute call of the ralph_loop tool
    pool,                   \* one mapWithConcurrencyLimit call of parallel mode
    run                     \* the subagent runs of the call: mode, processes, abort

closestVars == <<checkpoints, targetTs, closest>>
gateVars == <<autonomyLevel, savedLevel, sessionDeniedCommands, hasUI, command,
              levelAtCall, gatePrompt, gateOptions, gateChoice, gateResult,
              gateReason, gateNotified, gatePc, toolName, filePath, answered>>
gitVars == <<repo, refs, now>>
restoreVars == <<restoreCp, restoreCount, restoreStatus, afterFirst>>
tripVars == <<created, loaded>>
extVars == <<isRepo, hostSession, state, turnTasks, preload, prompt, restoreLog,
             returnedEarly>>
loadVars == <<loadJob, chainFiles, walk>>
ralphVars == <<loop, pool, run>>
vars == <<closestVars, gateVars, gitVars, restoreVars, tripVars, extVars, loadVars,
          ralphVars>>

\* ---------------------------------------------------------------- bounds
MaxCps == 3         \* longest candidate list
MaxTs == 3          \* largest timestamp in the closest-checkpoint inputs
MaxSegs == 3        \* most pipe segments of a command
MaxContent == 1     \* distinct contents a file can have
MaxTurnIndex == 11  \* largest event.turnIndex
MaxTurns == 1       \* turn_start events that start a checkpoint
MaxBackToBack == 2  \* the same, in the runs with turns that follow each other fast
MaxPrompts == 1     \* restore prompts
MaxRefs == 4        \* refs under refs/pi-checkpoints in a load
MaxLoopParam == 2   \* largest maxIterations given in a ralph_loop call
MaxTasks == 6       \* most tasks of a parallel call
MaxChain == 2       \* most steps of a chain

\* ------------------------------------------------------------ generic helpers
Undefined == "undefined"

Abs(x) == IF x < 0 THEN -x ELSE x

Range(f) == {f[i] : i \in DOMAIN f}

\* ==========================================================================
\* Closest-checkpoint selection
\* ==========================================================================
NoneRec == [id |-> 0, timestamp |-> 0]

\* Candidate lists: records with a distinct id per position and any timestamp.
ListsOfLen(k) ==
    {[i \in 1..k |-> [id |-> i, timestamp |-> ts[i]]] : ts \in [1..k -> 0..MaxTs]}

CheckpointLists == UNION {ListsOfLen(k) : k \in 1..MaxCps}

\* The reduce callback: prefer a checkpoint at or before the target, else the
\* nearer one; on equal distance the accumulated best is kept.
ClosestStepNearestOnly(best, cp, T) ==
    IF Abs(cp.timestamp - T) < Abs(best.timestamp - T) THEN cp ELSE best

ClosestStep(best, cp, T) ==
    LET bestDiff == Abs(best.timestamp - T)
        cpDiff == Abs(cp.timestamp - T)
    IN  IF cp.timestamp <= T /\ best.timestamp > T THEN cp
        ELSE IF best.timestamp <= T /\ cp.timestamp > T THEN best
        ELSE IF cpDiff < bestDiff THEN cp ELSE best

RECURSIVE ReduceFrom(_, _, _, _)
ReduceFrom(cps, i, best, T) ==
    IF i > Len(cps) THEN best
    ELSE ReduceFrom(cps, i + 1, ClosestStep(best, cps[i], T), T)

\* checkpoints.reduce(callback) without an initial value: starts from cps[1].
findClosestCheckpoint(cps, T) == ReduceFrom(cps, 2, cps[1], T)

ClosestIdle ==
    /\ checkpoints = <<>>
    /\ targetTs = 0
    /\ closest = NoneRec

ClosestInit ==
    /\ checkpoints \in CheckpointLists
    /\ targetTs \in 0..MaxTs
    /\ closest = NoneRec

\* handleRestorePrompt's selection step on a non-empty candidate list.
FindClosest ==
    /\ closest = NoneRec
    /\ closest' = findClosestCheckpoint(checkpoints, targetTs)
    /\ UNCHANGED <<checkpoints, targetTs>>
    /\ UNCHANGED <<gateVars, gitVars, restoreVars, tripVars, extVars, loadVars, ralphVars>>

\* ==========================================================================
\* Permission gate (autonomy.ts)
\* A command is the sequence of its whitespace-separated words; the regular
\* expressions of the source are evaluated on words.
\* ==========================================================================
AUTONOMY_ORDER == <<"off", "low", "medium", "high">>

Levels == {AUTONOMY_ORDER[i] : i \in 1..Len(AUTONOMY_ORDER)}

\* AUTONOMY_ORDER.indexOf(level)
LevelIndex(level) == CHOOSE i \in 1..Len(AUTONOMY_ORDER) : AUTONOMY_ORDER[i] = level

AUTONOMY_CONFIGS ==
    [off |-> [label |-> "Off", allowReadOnlyBash |-> TRUE, allowSafeWrites |-> FALSE,
              allowMediumBash |-> FALSE, allowAllBash |-> FALSE, allowProtectedPaths |-> FALSE],
     low |-> [label |-> "Low", allowReadOnlyBash |-> TRUE, allowSafeWrites |-> TRUE,
              allowMediumBash |-> FALSE, allowAllBash |-> FALSE, allowProtectedPaths |-> FALSE],
     medium |-> [label |-> "Medium", allowReadOnlyBash |-> TRUE, allowSafeWrites |-> TRUE,
              allowMediumBash |-> TRUE, allowAllBash |-> FALSE, allowProtectedPaths |-> FALSE],
     high |-> [label |-> "High", allowReadOnlyBash |-> TRUE, allowSafeWrites |-> TRUE,
              allowMediumBash |-> TRUE, allowAllBash |-> TRUE, allowProtectedPaths |-> TRUE]]

\* `Allow all (${AUTONOMY_CONFIGS[level].label})`
AllowAllLabel(level) ==
    CASE level = "off" -> "Allow all (Off)"
      [] level = "low" -> "Allow all (Low)"
      [] level = "medium" -> "Allow all (Medium)"
      [] level = "high" -> "Allow all (High)"

\* ---- the pattern tables, as word sets
\* (the backtick is written "BACKTICK")
ChainingWords == {"BACKTICK", "&&", "||", "$(", "&", ";"}

ALLOWLIST_WORDS ==
    {"ls", "pwd", "echo", "cat", "head", "tail", "wc", "which", "whoami", "date",
     "uname", "env", "printenv", "type", "file", "stat", "df", "du", "free",
     "uptime", "grep", "find"}

SAFE_PIPE_WORDS ==
    {"head", "tail", "wc", "sort", "uniq", "cut", "awk", "sed", "tr", "grep",
     "less", "more"}

READ_ONLY_WORDS == ALLOWLIST_WORDS \cup {"ps", "top", "htop", "locate", "tree"}

READ_ONLY_PREFIXES ==
    ({"git"} \X {"status", "log", "diff", "branch", "show"})
    \cup ({"npm"} \X {"list", "ls", "--version"})
    \cup ({"yarn", "pnpm"} \X {"list"})
    \cup ({"node", "python"} \X {"--version"})

MEDIUM_WORDS == {"make", "mkdir", "touch"}

MEDIUM_PREFIXES ==
    ({"npm"} \X {"install", "ci", "test", "run", "build", "start"})
    \cup ({"yarn", "pnpm"} \X {"install", "add", "test", "build", "start"})
    \cup ({"pip"} \X {"install"})
    \cup ({"cargo"} \X {"build", "test", "run"})
    \cup ({"go"} \X {"build", "test", "run", "get"})
    \cup ({"git"} \X {"add", "commit", "stash", "checkout", "branch", "merge",
                      "rebase", "fetch", "pull"})

\* words a pattern of the denylist looks for
RmFlagWords == {"-r", "-rf", "--recursive", "--force"}
ShellWords == {"sh", "bash"}
PipeWords == {"|", "||"}

StartsWithWord(seg, S) == Len(seg) >= 1 /\ seg[1] \in S
StartsWithPair(seg, P) == Len(seg) >= 2 /\ <<seg[1], seg[2]>> \in P

\* DANGEROUS_CHAINING_RE.test(command)
DANGEROUS_CHAINING_RE(cmd) == \E i \in 1..Len(cmd) : cmd[i] \in ChainingWords

ALLOWLIST_RE(seg) == StartsWithWord(seg, ALLOWLIST_WORDS)
SAFE_PIPE_RE(seg) == StartsWithWord(seg, SAFE_PIPE_WORDS)
READ_ONLY_RE(seg) == StartsWithWord(seg, READ_ONLY_WORDS)
READ_ONLY_PREFIX_RE(seg) == StartsWithPair(seg, READ_ONLY_PREFIXES)
MEDIUM_COMMAND_RE(seg) ==
    StartsWithWord(seg, MEDIUM_WORDS) \/ StartsWithPair(seg, MEDIUM_PREFIXES)

\* command.includes("|"): the word "||" holds the character too
IncludesPipe(cmd) == \E i \in 1..Len(cmd) : cmd[i] \in PipeWords

\* command.split("|"), each segment trimmed; "||" splits twice
RECURSIVE SplitPipe(_, _, _)
SplitPipe(cmd, i, cur) ==
    IF i > Len(cmd) THEN <<cur>>
    ELSE IF cmd[i] = "|" THEN <<cur>> \o SplitPipe(cmd, i + 1, <<>>)
    ELSE IF cmd[i] = "||" THEN <<cur, <<>>>> \o SplitPipe(cmd, i + 1, <<>>)
    ELSE SplitPipe(cmd, i + 1, Append(cur, cmd[i]))

Segments(cmd) == SplitPipe(cmd, 1, <<>>)

isAllowedPipeline(cmd) ==
    LET segments == Segments(cmd)
    IN  /\ IncludesPipe(cmd)
        /\ Len(segments) >= 2 /\ Len(segments) <= 3
        /\ ALLOWLIST_RE(segments[1])
        /\ \A i \in 2..Len(segments) : SAFE_PIPE_RE(segments[i])

\* the allowlist test without the chaining test
isInAllowlistUnchained(cmd) ==
    IF IncludesPipe(cmd) THEN isAllowedPipeline(cmd) ELSE ALLOWLIST_RE(cmd)

isInAllowlist(cmd) ==
    IF DANGEROUS_CHAINING_RE(cmd) THEN FALSE
    ELSE IF IncludesPipe(cmd) THEN isAllowedPipeline(cmd)
    ELSE ALLOWLIST_RE(cmd)

\* COMMAND_DENYLIST_PATTERNS.some(p => p.test(command)); the patterns are not
\* anchored, so they look at every position of the command.
matchesDenylist(cmd) ==
    LET n == Len(cmd)
        Has(w) == \E i \in 1..n : cmd[i] = w
        Later(i, S) == \E j \in (i + 1)..n : cmd[j] \in S
    IN  \/ \E i \in 1..(n - 1) : cmd[i] = "rm" /\ cmd[i + 1] \in RmFlagWords
        \/ Has("sudo")
        \/ \E i \in 1..n : cmd[i] \in {"chmod", "chown"} /\ Later(i, {"777"})
        \/ Has("mkfs")
        \/ \E i \in 1..n : cmd[i] = "dd" /\ Later(i, {"of=/dev/sda"})
        \/ \E i \in 1..n : cmd[i] \in {"shutdown", "reboot", "halt", "poweroff"}
        \/ Has("x>/dev/sda")
        \/ \E i \in 1..(n - 1) : cmd[i] = "rm" /\ cmd[n] = "/"
        \/ \E i \in 1..(n - 2) :
              cmd[i] = "git" /\ cmd[i + 1] = "push" /\ Later(i + 1, {"--force"})
        \/ \E i \in 1..(n - 2) :
              cmd[i] = "git" /\ cmd[i + 1] = "reset" /\ cmd[i + 2] = "--hard"
        \/ \E i \in 1..(n - 1) : cmd[i] = "npm" /\ cmd[i + 1] = "publish"
        \/ \E i \in 1..n : cmd[i] \in {"curl", "wget"} /\
              \E j \in (i + 1)..(n - 1) : cmd[j] \in PipeWords /\ cmd[j + 1] \in ShellWords

isReadOnlyCommand(cmd) ==
    IF DANGEROUS_CHAINING_RE(cmd) THEN FALSE
    ELSE IF IncludesPipe(cmd) /\ isAllowedPipeline(cmd) THEN TRUE
    ELSE READ_ONLY_RE(cmd) \/ READ_ONLY_PREFIX_RE(cmd)

isMediumCommand(cmd) ==
    IF DANGEROUS_CHAINING_RE(cmd) THEN FALSE ELSE MEDIUM_COMMAND_RE(cmd)

getLevelNoMedium(cmd) == IF isReadOnlyCommand(cmd) THEN "off" ELSE "high"

getLevelForBashCommand(cmd) ==
    IF isReadOnlyCommand(cmd) THEN "off"
    ELSE IF isMediumCommand(cmd) THEN "medium"
    ELSE "high"

\* ---- the bash tool_call handler
\* Commands are pipelines of up to MaxSegs segments drawn from SegmentPool: an
\* allowlisted command, one that is also a safe pipe target, a read-only and a
\* dev command, a read-only two-word prefix, a denylisted word alone and after
\* an allowlisted command, a shell, and two chained commands.
SegmentPool ==
    {<<"ls">>, <<"wc">>, <<"ps">>, <<"make">>, <<"git", "status">>, <<"sudo">>,
     <<"ls", "sudo">>, <<"sh">>, <<"ls", "&&", "sh">>, <<"make", ";", "ls">>}

RECURSIVE JoinPipe(_)
JoinPipe(segs) ==
    IF Len(segs) = 1 THEN segs[1]
    ELSE segs[1] \o <<"|">> \o JoinPipe(Tail(segs))

Commands == {JoinPipe(segs) : segs \in UNION {[1..k -> SegmentPool] : k \in 1..MaxSegs}}

\* the test that leaves the escalation option out
CanEscalateAlways(requiredLevel, level) == TRUE

\* requiredIndex > currentIndex
CanEscalate(requiredLevel, level) == LevelIndex(requiredLevel) > LevelIndex(level)

\* an add that forgets the command
AddDeniedNothing(denied, cmd) == denied

\* sessionDeniedCommands.add(command)
AddDenied(denied, cmd) == denied \cup {cmd}

\* a gate that lets the call pass when there is no UI
BlockNoUIAllows(reason, level, denied) ==
    [prompt |-> "none", options |-> <<>>, result |-> "allow", reason |-> "",
     level |-> level, denied |-> denied, save |-> FALSE, notified |-> FALSE]

\* if (!ctx.hasUI) return { block: true, reason }
BlockNoUI(reason, level, denied) ==
    [prompt |-> "none", options |-> <<>>, result |-> "block", reason |-> reason,
     level |-> level, denied |-> denied, save |-> FALSE, notified |-> FALSE]

GateReturn(shown, options, result, reason, level, denied, save, notified) ==
    [prompt |-> shown, options |-> options, result |-> result, reason |-> reason,
     level |-> level, denied |-> denied, save |-> save, notified |-> notified]

\* pi.on("tool_call") for toolName "bash": what the handler shows and returns
\* when the user answers `choice` to the select it shows (Undefined: dismissed).
BashHandler(cmd, level, denied, ui, choice) ==
    LET config == AUTONOMY_CONFIGS[level]
        requiredLevel == getLevelForBashCommand(cmd)
        canEscalate == CanEscalate(requiredLevel, level)
        dangerOptions == <<"Allow once", "Always block", "Block">>
        options == <<"Allow once">>
                   \o (IF canEscalate THEN <<AllowAllLabel(requiredLevel)>> ELSE <<>>)
                   \o <<"Block">>
        Allow == GateReturn("none", <<>>, "allow", "", level, denied, FALSE, FALSE)
        Block(reason) == GateReturn("none", <<>>, "block", reason, level, denied, FALSE, FALSE)
    IN  IF isInAllowlist(cmd) THEN Allow
        ELSE IF matchesDenylist(cmd) THEN
            IF cmd \in denied THEN Block("Previously denied this session")
            ELSE IF ~ui THEN BlockNoUI("Dangerous command blocked (no UI)", level, denied)
            ELSE IF choice = "Allow once" THEN
                GateReturn("dangerous", dangerOptions, "allow", "", level, denied, FALSE, FALSE)
            ELSE IF choice = "Always block" THEN
                GateReturn("dangerous", dangerOptions, "block", "Blocked by user",
                           level, AddDenied(denied, cmd), FALSE, FALSE)
            ELSE
                GateReturn("dangerous", dangerOptions, "block", "Blocked by user",
                           level, denied, FALSE, FALSE)
        ELSE IF config.allowAllBash THEN Allow
        ELSE IF config.allowMediumBash /\ isMediumCommand(cmd) THEN Allow
        ELSE IF config.allowReadOnlyBash /\ isReadOnlyCommand(cmd) THEN Allow
        ELSE IF ~ui THEN BlockNoUI("Command blocked (no UI)", level, denied)
        ELSE IF choice = "Allow once" THEN
            GateReturn("permission", options, "allow", "", level, denied, FALSE, FALSE)
        ELSE IF choice = "Block" THEN
            GateReturn("permission", options, "block", "Blocked by user",
                       level, denied, FALSE, FALSE)
        ELSE IF canEscalate /\ choice = AllowAllLabel(requiredLevel) THEN
            GateReturn("permission", options, "allow", "", requiredLevel, denied, TRUE, TRUE)
        ELSE
            GateReturn("permission", options, "block", "Blocked by user",
                       level, denied, FALSE, FALSE)

\* The answers ctx.ui.select can give for the select the handler shows.
ChoicesOf(ret) ==
    IF ret.prompt = "none" THEN {Undefined} ELSE Range(ret.options) \cup {Undefined}

AllChoices ==
    {Undefined, "Allow once", "Always block", "Block"} \cup {AllowAllLabel(l) : l \in Levels}

\* no write or edit call
NoPath == [abs |-> FALSE, segs |-> <<>>]

\* no dangerous-command prompt answered yet
NoAnswers == [c \in {} |-> Undefined]

GateIdle ==
    /\ autonomyLevel = "high"
    /\ savedLevel = Undefined
    /\ sessionDeniedCommands = {}
    /\ hasUI = FALSE
    /\ command = <<>>
    /\ levelAtCall = "high"
    /\ gatePrompt = "none"
    /\ gateOptions = <<>>
    /\ gateChoice = Undefined
    /\ gateResult = Undefined
    /\ gateReason = ""
    /\ gateNotified = FALSE
    /\ gatePc = "idle"
    /\ toolName = "none"
    /\ filePath = NoPath
    /\ answered = NoAnswers

\* A bash tool call arrives in a session: the level is the one loaded or chosen
\* at session start or escalated since; the denied set holds this command only if
\* the dangerous-command prompt can have been shown for it before.
BashInit ==
    /\ command \in Commands
    /\ autonomyLevel \in Levels
    /\ savedLevel = Undefined
    /\ hasUI \in BOOLEAN
    /\ sessionDeniedCommands \in
          {{}} \cup (IF hasUI /\ matchesDenylist(command) /\ ~isInAllowlist(command)
                     THEN {{command}} ELSE {})
    /\ levelAtCall = autonomyLevel
    /\ gatePrompt = "none"
    /\ gateOptions = <<>>
    /\ gateChoice = Undefined
    /\ gateResult = Undefined
    /\ gateReason = ""
    /\ gateNotified = FALSE
    /\ gatePc = "ready"
    /\ toolName = "bash"
    /\ filePath = NoPath
    /\ answered = NoAnswers

ToolCallBash ==
    /\ gatePc = "ready"
    /\ \E choice \in AllChoices :
        LET ret == BashHandler(command, autonomyLevel, sessionDeniedCommands, hasUI, choice)
        IN  /\ choice \in ChoicesOf(ret)
            /\ gatePrompt' = ret.prompt
            /\ gateOptions' = ret.options
            /\ gateChoice' = choice
            /\ gateResult' = ret.result
            /\ gateReason' = ret.reason
            /\ autonomyLevel' = ret.level
            /\ savedLevel' = IF ret.save THEN ret.level ELSE savedLevel
            /\ sessionDeniedCommands' = ret.denied
            /\ gateNotified' = ret.notified
    /\ gatePc' = "done"
    /\ UNCHANGED <<hasUI, command, levelAtCall, toolName, filePath, answered>>
    /\ UNCHANGED <<closestVars, gitVars, restoreVars, tripVars, extVars, loadVars, ralphVars>>

\* ---- the write/edit tool_call handler
\* A path is its segments and whether it starts at the root; the working
\* directory of the session is /proj.
Cwd == <<"proj">>

\* file names of the pool that include ".env", "package-lock.json", "yarn.lock"
\* or "pnpm-lock.yaml" (PROTECTED_PATHS entries without a slash)
ProtectedNames ==
    {".env", ".env.local", ".env.production", ".envrc", "package-lock.json",
     "yarn.lock", "pnpm-lock.yaml"}

\* directory names that, followed by "/", include ".git/" or "node_modules/"
ProtectedDirs == {".git", "node_modules"}

\* PROTECTED_PATHS.some(p => normalized.includes(p))
isProtectedPath(p) ==
    \E i \in 1..Len(p.segs) :
        \/ p.segs[i] \in ProtectedNames
        \/ i < Len(p.segs) /\ p.segs[i] \in ProtectedDirs

\* path.resolve(base, segs): ".." leaves a directory, "." stays
RECURSIVE PathResolve(_, _)
PathResolve(base, segs) ==
    IF Len(segs) = 0 THEN base
    ELSE IF Head(segs) = ".." THEN
        PathResolve(IF Len(base) = 0 THEN base ELSE SubSeq(base, 1, Len(base) - 1),
                    Tail(segs))
    ELSE IF Head(segs) = "." THEN PathResolve(base, Tail(segs))
    ELSE PathResolve(Append(base, Head(segs)), Tail(segs))

isWithinProjectDir(p, cwd) ==
    LET absolute == IF p.abs THEN PathResolve(<<>>, p.segs) ELSE PathResolve(cwd, p.segs)
        normalizedCwd == PathResolve(<<>>, cwd)
    IN  /\ Len(absolute) >= Len(normalizedCwd)
        /\ SubSeq(absolute, 1, Len(normalizedCwd)) = normalizedCwd

getLevelForWrite(withinProject) == IF withinProject THEN "low" ELSE "high"

\* Paths of write and edit calls: inside the project (relative through ".",
\* absolute), outside it (through ".."), a protected name, a file under a
\* protected directory outside the project, and a file named like a protected
\* directory.
PathPool ==
    {[abs |-> FALSE, segs |-> <<".", "a.ts">>],
     [abs |-> TRUE, segs |-> <<"proj", "a.ts">>],
     [abs |-> FALSE, segs |-> <<"..", "other", "b.ts">>],
     [abs |-> FALSE, segs |-> <<".env">>],
     [abs |-> TRUE, segs |-> <<"other", ".git", "config">>],
     [abs |-> FALSE, segs |-> <<".git">>]}

\* pi.on("tool_call") for toolName "write" or "edit"
WriteHandler(path, level, denied, ui, choice) ==
    LET config == AUTONOMY_CONFIGS[level]
        withinProject == isWithinProjectDir(path, Cwd)
        requiredLevel == getLevelForWrite(withinProject)
        canEscalate == CanEscalate(requiredLevel, level)
        protectedOptions == <<"Allow once", "Allow all (High)", "Block">>
        options == <<"Allow once">>
                   \o (IF canEscalate THEN <<AllowAllLabel(requiredLevel)>> ELSE <<>>)
                   \o <<"Block">>
        Allow == GateReturn("none", <<>>, "allow", "", level, denied, FALSE, FALSE)
        Block(reason) == GateReturn("none", <<>>, "block", reason, level, denied, FALSE, FALSE)
    IN  IF isProtectedPath(path) THEN
            IF config.allowProtectedPaths THEN Allow
            ELSE IF ~ui THEN BlockNoUI("Protected path blocked (no UI)", level, denied)
            ELSE IF choice = "Allow once" THEN
                GateReturn("protected", protectedOptions, "allow", "", level, denied,
                           FALSE, FALSE)
            ELSE IF choice = "Allow all (High)" THEN
                GateReturn("protected", protectedOptions, "allow", "", "high", denied,
                           TRUE, TRUE)
            ELSE
                GateReturn("protected", protectedOptions, "block", "Blocked by user",
                           level, denied, FALSE, FALSE)
        ELSE IF config.allowSafeWrites /\ withinProject THEN Allow
        ELSE IF ~ui THEN BlockNoUI("Write blocked (no UI)", level, denied)
        ELSE IF choice = "Allow once" THEN
            GateReturn("write", options, "allow", "", level, denied, FALSE, FALSE)
        ELSE IF choice = "Block" THEN
            GateReturn("write", options, "block", "Blocked by user", level, denied,
                       FALSE, FALSE)
        ELSE IF canEscalate /\ choice = AllowAllLabel(requiredLevel) THEN
            GateReturn("write", options, "allow", "", requiredLevel, denied, TRUE, TRUE)
        ELSE
            GateReturn("write", options, "block", "Blocked by user", level, denied,
                       FALSE, FALSE)

\* ---- a session of the gate: the session start, then tool calls
\* Commands of the session's bash calls: allowlisted, dev, other, denylisted
\* alone, denylisted behind an allowlisted word, denylisted by a three-word
\* pattern.
SessionCommands ==
    {<<"ls">>, <<"make">>, <<"sh">>, <<"sudo">>, <<"ls", "sudo">>,
     <<"git", "reset", "--hard">>}

\* The module is loaded: autonomyLevel is "high", the settings file holds a
\* level or none.
GateSessionInit ==
    /\ autonomyLevel = "high"
    /\ savedLevel \in Levels \cup {Undefined}
    /\ sessionDeniedCommands = {}
    /\ hasUI \in BOOLEAN
    /\ command = <<>>
    /\ levelAtCall = "high"
    /\ gatePrompt = "none"
    /\ gateOptions = <<>>
    /\ gateChoice = Undefined
    /\ gateResult = Undefined
    /\ gateReason = ""
    /\ gateNotified = FALSE
    /\ gatePc = "new"
    /\ toolName = "none"
    /\ filePath = NoPath
    /\ answered = NoAnswers

\* loadAutonomyLevel: the settings file's level, else AUTONOMY_LEVEL
loadAutonomyLevel(settingsLevel, envLevel) ==
    IF settingsLevel # Undefined THEN settingsLevel ELSE envLevel

\* pi.on("session") with reason "start"; `selected` is what showAutonomySelector
\* returns (the level whose label starts the chosen option, or null).
GateSessionStart ==
    /\ gatePc = "new"
    /\ \E envLevel \in Levels \cup {Undefined}, selected \in Levels \cup {Undefined} :
        LET level == loadAutonomyLevel(savedLevel, envLevel)
        IN  IF level # Undefined THEN
                /\ selected = Undefined
                /\ autonomyLevel' = level
                /\ gateNotified' = hasUI
                /\ UNCHANGED savedLevel
            ELSE IF hasUI THEN
                /\ envLevel = Undefined
                /\ autonomyLevel' = IF selected # Undefined THEN selected ELSE "high"
                /\ savedLevel' = selected
                /\ gateNotified' = TRUE
            ELSE
                /\ envLevel = Undefined /\ selected = Undefined
                /\ autonomyLevel' = "high"
                /\ gateNotified' = FALSE
                /\ UNCHANGED savedLevel
    /\ gatePc' = "session"
    /\ UNCHANGED <<sessionDeniedCommands, hasUI, command, levelAtCall, gatePrompt,
                   gateOptions, gateChoice, gateResult, gateReason, toolName, filePath,
                   answered>>
    /\ UNCHANGED <<closestVars, gitVars, restoreVars, tripVars, extVars, loadVars, ralphVars>>

\* handlers that fall back to Off when the call is blocked
GateApplyDropsLevel(ret, choice) ==
    /\ gatePrompt' = ret.prompt
    /\ gateOptions' = ret.options
    /\ gateChoice' = choice
    /\ gateResult' = ret.result
    /\ gateReason' = ret.reason
    /\ autonomyLevel' = IF ret.result = "block" THEN "off" ELSE ret.level
    /\ savedLevel' = IF ret.save THEN ret.level ELSE savedLevel
    /\ sessionDeniedCommands' = ret.denied
    /\ gateNotified' = ret.notified
    /\ levelAtCall' = autonomyLevel
    /\ gatePc' = "done"

\* what both tool_call handlers leave after a call
GateApply(ret, choice) ==
    /\ gatePrompt' = ret.prompt
    /\ gateOptions' = ret.options
    /\ gateChoice' = choice
    /\ gateResult' = ret.result
    /\ gateReason' = ret.reason
    /\ autonomyLevel' = ret.level
    /\ savedLevel' = IF ret.save THEN ret.level ELSE savedLevel
    /\ sessionDeniedCommands' = ret.denied
    /\ gateNotified' = ret.notified
    /\ levelAtCall' = autonomyLevel
    /\ gatePc' = "done"

\* a bash tool call of the session
GateBashCall ==
    /\ gatePc \in {"session", "done"}
    /\ \E cmd \in SessionCommands, choice \in AllChoices :
        LET ret == BashHandler(cmd, autonomyLevel, sessionDeniedCommands, hasUI, choice)
        IN  /\ choice \in ChoicesOf(ret)
            /\ GateApply(ret, choice)
            /\ command' = cmd
            /\ answered' =
                  IF ret.prompt = "dangerous"
                  THEN [c \in DOMAIN answered \cup {cmd} |->
                           IF c = cmd THEN choice ELSE answered[c]]
                  ELSE answered
    /\ toolName' = "bash"
    /\ UNCHANGED <<hasUI, filePath>>
    /\ UNCHANGED <<closestVars, gitVars, restoreVars, tripVars, extVars, loadVars, ralphVars>>

\* a write or edit tool call of the session
GateWriteCall ==
    /\ gatePc \in {"session", "done"}
    /\ \E tool \in {"write", "edit"}, path \in PathPool, choice \in AllChoices :
        LET ret == WriteHandler(path, autonomyLevel, sessionDeniedCommands, hasUI, choice)
        IN  /\ choice \in ChoicesOf(ret)
            /\ GateApply(ret, choice)
            /\ toolName' = tool
            /\ filePath' = path
    /\ UNCHANGED <<hasUI, command, answered>>
    /\ UNCHANGED <<closestVars, gitVars, restoreVars, tripVars, extVars, loadVars, ralphVars>>

\* ==========================================================================
\* The git repository and the checkpoint core functions
\* A tree maps each file to its content, 0 when the file is absent; tree and
\* commit ids are content addressed, so an object stands for its own sha.
\* ==========================================================================
Files == {"f"}

Contents == 0..MaxContent

Trees == [Files -> Contents]

EmptyTree == [f \in Files |-> 0]

\* "0".repeat(40): the head recorded on an unborn branch
ZEROS == [kind |-> "zeros", tree |-> EmptyTree]

CommitOf(tree) == [kind |-> "commit", tree |-> tree]

Heads == {ZEROS} \cup {CommitOf(t) : t \in Trees}

Repos == [head : Heads, index : Trees, worktree : Trees]

\* ---- git commands, on a repository r
\* git rev-parse HEAD, with .catch(() => ZEROS) for an unborn branch
RevParseHead(r) == r.head

\* git write-tree
WriteTree(r) == r.index

\* git add -A . ; git write-tree, on an empty temporary index
WriteWorktreeTree(r) == r.worktree

\* git clean -fd: removes the files the index does not know
GitClean(r) ==
    [r EXCEPT !.worktree = [f \in Files |-> IF r.index[f] = 0 THEN 0 ELSE r.worktree[f]]]

\* git reset --hard <commit>: HEAD, index and every tracked file follow the commit
GitResetHard(r, c) ==
    [head |-> c,
     index |-> c.tree,
     worktree |-> [f \in Files |->
                      IF r.index[f] # 0 \/ c.tree[f] # 0 THEN c.tree[f] ELSE r.worktree[f]]]

\* git read-tree --reset <tree>: replaces the index, leaves the working tree
GitReadTreeReset(r, t) == [r EXCEPT !.index = t]

\* git checkout-index -a -f: writes every index entry, removes nothing
GitCheckoutIndex(r) ==
    [r EXCEPT !.worktree = [f \in Files |-> IF r.index[f] # 0 THEN r.index[f] ELSE r.worktree[f]]]

\* ---- restoreCheckpoint
\* the git commands restoreCheckpoint runs for cp, in order
RestoreCommands(cp) ==
    <<"clean">>
    \o (IF cp.headSha # ZEROS THEN <<"reset --hard">> ELSE <<>>)
    \o <<"read-tree worktree", "checkout-index", "read-tree index">>

RestoreCommand(r, cmd, cp) ==
    CASE cmd = "clean" -> GitClean(r)
      [] cmd = "reset --hard" -> GitResetHard(r, cp.headSha)
      [] cmd = "read-tree worktree" -> GitReadTreeReset(r, cp.worktreeTreeSha)
      [] cmd = "checkout-index" -> GitCheckoutIndex(r)
      [] cmd = "read-tree index" -> GitReadTreeReset(r, cp.indexTreeSha)

\* the repository after the first n commands of restoreCheckpoint(cp) ran
RECURSIVE RunRestore(_, _, _)
RunRestore(r, cp, n) ==
    IF n = 0 THEN r
    ELSE RestoreCommand(RunRestore(r, cp, n - 1), RestoreCommands(cp)[n], cp)

\* restoreCheckpoint ran to its end
restoreCheckpoint(r, cp) == RunRestore(r, cp, Len(RestoreCommands(cp)))

\* ---- texts
DigitChars == <<"0", "1", "2", "3", "4", "5", "6", "7", "8", "9">>

\* `${n}` of a non-negative integer
RECURSIVE NumberToString(_)
NumberToString(n) ==
    IF n < 10 THEN <<DigitChars[n + 1]>>
    ELSE NumberToString(n \div 10) \o <<DigitChars[(n % 10) + 1]>>

DigitValue(c) == (CHOOSE i \in 1..10 : DigitChars[i] = c) - 1

\* parseInt(text, 10) of a text of digits
RECURSIVE ParseIntFrom(_, _, _)
ParseIntFrom(text, i, acc) ==
    IF i > Len(text) THEN acc
    ELSE ParseIntFrom(text, i + 1, acc * 10 + DigitValue(text[i]))

parseInt(text) == ParseIntFrom(text, 1, 0)

\* new Date(ms).toISOString(): the seconds and the milliseconds field
toISOString(ms) == <<NumberToString(ms \div 1000), NumberToString(ms % 1000)>>

\* new Date(iso).getTime()
DateGetTime(iso) == parseInt(iso[1]) * 1000 + parseInt(iso[2])

\* the text of a sha in a commit message
ShaText(sha) == <<sha>>

\* ---- checkpoints
CheckpointData(id, turnIndex, sessionId, headSha, indexTreeSha, worktreeTreeSha, timestamp) ==
    [id |-> id, turnIndex |-> turnIndex, sessionId |-> sessionId, headSha |-> headSha,
     indexTreeSha |-> indexTreeSha, worktreeTreeSha |-> worktreeTreeSha,
     timestamp |-> timestamp]

\* loadCheckpointFromRef's null
NullCheckpoint == CheckpointData(<<"null">>, -1, <<>>, ZEROS, EmptyTree, EmptyTree, -1)

\* the commit message of a checkpoint: one text per line, by the line's key
CheckpointMessage(id, turnIndex, sessionId, headSha, indexTreeSha, worktreeTreeSha, ms) ==
    [checkpoint |-> id,
     sessionId |-> sessionId,
     turn |-> NumberToString(turnIndex),
     head |-> ShaText(headSha),
     indexTree |-> ShaText(indexTreeSha),
     worktreeTree |-> ShaText(worktreeTreeSha),
     created |-> toISOString(ms)]

\* What createCheckpoint(root, id, turnIndex, sessionId) returns and the commit
\* it stores under refs/pi-checkpoints/<id>, on repository r at clock value ms.
createCheckpoint(r, id, turnIndex, sessionId, ms) ==
    LET headSha == RevParseHead(r)
        indexTreeSha == WriteTree(r)
        worktreeTreeSha == WriteWorktreeTree(r)
    IN  [data |-> CheckpointData(id, turnIndex, sessionId, headSha, indexTreeSha,
                                 worktreeTreeSha, ms),
         commit |-> [kind |-> "commit", tree |-> worktreeTreeSha,
                     message |-> CheckpointMessage(id, turnIndex, sessionId, headSha,
                                                   indexTreeSha, worktreeTreeSha, ms)]]

\* an update-ref that leaves only the new ref behind
UpdateRefDropsOthers(rs, id, commit) == [x \in {id} |-> commit]

\* git update-ref refs/pi-checkpoints/<id> <commit>
UpdateRef(rs, id, commit) ==
    [x \in (DOMAIN rs) \cup {id} |-> IF x = id THEN commit ELSE rs[x]]

\* commitMsg.match(new RegExp(`^${key} (.+)$`, "m"))?.[1]?.trim(): the text after
\* "key ". (.+) needs at least one character, so a line that ends after "key "
\* gives undefined, written <<>> here: the caller tests it with !value, which
\* is true of undefined and of the empty string alike. The texts written by
\* createCheckpoint hold no white space, so trim() changes nothing.
MessageGet(text) == IF Len(text) >= 1 THEN text ELSE <<>>

Falsy(text) == Len(text) = 0

loadCheckpointFromRef(rs, refName) ==
    IF refName \notin DOMAIN rs \/ rs[refName].kind # "commit" THEN NullCheckpoint
    ELSE
        LET msg == rs[refName].message
            sessionId == MessageGet(msg.sessionId)
            turn == MessageGet(msg.turn)
            head == MessageGet(msg.head)
            index == MessageGet(msg.indexTree)
            worktree == MessageGet(msg.worktreeTree)
            createdText == msg.created
        IN  IF \/ Falsy(sessionId) \/ Falsy(turn) \/ Falsy(head)
               \/ Falsy(index) \/ Falsy(worktree)
            THEN NullCheckpoint
            ELSE CheckpointData(refName, parseInt(turn), sessionId, head[1], index[1],
                                worktree[1],
                                IF Falsy(createdText) THEN 0 ELSE DateGetTime(createdText))

\* ---- idle values of the repository variables
NoRefs == [x \in {} |-> NullCheckpoint]

GitIdle ==
    /\ repo = [head |-> ZEROS, index |-> EmptyTree, worktree |-> EmptyTree]
    /\ refs = NoRefs
    /\ now = 0

\* ==========================================================================
\* restoreCheckpoint on any repository (SpecRestore)
\* ==========================================================================
\* the checkpoints createCheckpoint can have recorded: any head, index and
\* working tree
RestorableCheckpoints ==
    {CheckpointData(<<"cp">>, 0, <<"a">>, r.head, r.index, r.worktree, 0) : r \in Repos}

RestoreIdle ==
    /\ restoreCp = NullCheckpoint
    /\ restoreCount = 0
    /\ restoreStatus = "none"
    /\ afterFirst = [head |-> ZEROS, index |-> EmptyTree, worktree |-> EmptyTree]

RestoreInit ==
    /\ repo \in Repos
    /\ refs = NoRefs
    /\ now = 0
    /\ restoreCp \in RestorableCheckpoints
    /\ restoreCount = 0
    /\ restoreStatus = "none"
    /\ afterFirst = repo

\* One call of restoreCheckpoint(root, restoreCp): it runs its git commands in
\* order and throws at the first that fails.
RestoreRun ==
    /\ restoreStatus # "failed"
    /\ restoreCount < 2
    /\ \E n \in 0..Len(RestoreCommands(restoreCp)) :
        /\ repo' = RunRestore(repo, restoreCp, n)
        /\ IF n = Len(RestoreCommands(restoreCp))
           THEN /\ restoreStatus' = "ok"
                /\ restoreCount' = restoreCount + 1
                /\ afterFirst' = IF restoreCount = 0 THEN repo' ELSE afterFirst
           ELSE /\ restoreStatus' = "failed"
                /\ UNCHANGED <<restoreCount, afterFirst>>
    /\ UNCHANGED <<restoreCp, refs, now>>
    /\ UNCHANGED <<closestVars, gateVars, tripVars, extVars, loadVars, ralphVars>>

\* ==========================================================================
\* createCheckpoint, then loadCheckpointFromRef (SpecRoundTrip)
\* ==========================================================================
NoCheckpoint == CheckpointData(<<"none">>, -1, <<>>, ZEROS, EmptyTree, EmptyTree, -1)

\* The session ids the extension passes: state.currentSessionId is a safe id or
\* empty (updateSessionInfo), and saveAndRestore passes it unchecked.
TripSessionIds == {<<>>, <<"a">>, <<"b", "-", "1">>}

\* Clock values with one to five digits, below and above a full second.
TripTimes == {0, 7, 999, 1000, 12345}

\* `${sessionId}-turn-${turnIndex}-${timestamp}`
TurnId(sessionId, turnIndex, timestamp) ==
    sessionId \o <<"-turn-">> \o NumberToString(turnIndex) \o <<"-">>
        \o NumberToString(timestamp)

\* `${sessionId}-before-restore-${Date.now()}`
BeforeRestoreId(sessionId, ms) ==
    sessionId \o <<"-before-restore-">> \o NumberToString(ms)

TripIdle ==
    /\ created = NoCheckpoint
    /\ loaded = NoCheckpoint

TripInit ==
    /\ repo \in Repos
    /\ refs = NoRefs
    /\ now \in TripTimes
    /\ created = NoCheckpoint
    /\ loaded = NoCheckpoint

\* createTurnCheckpoint's call: createCheckpoint(root, id, turnIndex, sessionId),
\* made by turn_start only when a session id is known
TripCreateTurn ==
    /\ created = NoCheckpoint
    /\ \E sessionId \in TripSessionIds \ {<<>>}, turnIndex \in 0..MaxTurnIndex,
          ts \in TripTimes :
        LET cp == createCheckpoint(repo, TurnId(sessionId, turnIndex, ts), turnIndex,
                                   sessionId, now)
        IN  /\ created' = cp.data
            /\ refs' = UpdateRef(refs, cp.data.id, cp.commit)
    /\ UNCHANGED <<repo, now, loaded>>
    /\ UNCHANGED <<closestVars, gateVars, restoreVars, extVars, loadVars, ralphVars>>

\* saveAndRestore's call: createCheckpoint(root, beforeId, 0, currentSessionId)
TripCreateBeforeRestore ==
    /\ created = NoCheckpoint
    /\ \E sessionId \in TripSessionIds :
        LET cp == createCheckpoint(repo, BeforeRestoreId(sessionId, now), 0, sessionId, now)
        IN  /\ created' = cp.data
            /\ refs' = UpdateRef(refs, cp.data.id, cp.commit)
    /\ UNCHANGED <<repo, now, loaded>>
    /\ UNCHANGED <<closestVars, gateVars, restoreVars, extVars, loadVars, ralphVars>>

\* loadCheckpointFromRef(root, created.id)
TripLoad ==
    /\ created # NoCheckpoint
    /\ loaded = NoCheckpoint
    /\ loaded' = loadCheckpointFromRef(refs, created.id)
    /\ UNCHANGED <<repo, refs, now, created>>
    /\ UNCHANGED <<closestVars, gateVars, restoreVars, extVars, loadVars, ralphVars>>

\* ==========================================================================
\* The checkpoint extension (checkpoint.ts)
\* Handlers run to their end in one step; what they start in the background
\* (the turn checkpoint, the preload, the candidate load of the restore
\* prompt) resumes in steps of its own, interleaved with later handlers.
\* ==========================================================================
\* The host's sessions: s2 is a fork of s1; the header of s3 carries an id that
\* is not a safe id, its file name carries the uuid "c".
SessionNames == {"s1", "s2", "s3"}

NoSession == "none"

HeaderId(s) ==
    CASE s = "s1" -> <<"a">>
      [] s = "s2" -> <<"b">>
      [] s = "s3" -> <<"c", "/">>

FileNameId(s) ==
    CASE s = "s1" -> <<"a">>
      [] s = "s2" -> <<"b">>
      [] s = "s3" -> <<"c">>

ParentSession(s) == IF s = "s2" THEN "s1" ELSE NoSession

\* The host enters its sessions in this order, each at most once.
SessionRank(s) == CASE s = "s1" -> 1 [] s = "s2" -> 2 [] s = "s3" -> 3

\* a test that takes every non-empty id
isSafeIdAnything(id) == Len(id) >= 1

\* /^[\w-]+$/
SafeIdChars ==
    {"a", "b", "c", "d", "e", "f", "g", "h", "i", "j", "k", "l", "m", "n", "o", "p",
     "q", "r", "s", "t", "u", "v", "w", "x", "y", "z",
     "0", "1", "2", "3", "4", "5", "6", "7", "8", "9", "_", "-"}

isSafeId(id) == Len(id) >= 1 /\ \A i \in 1..Len(id) : id[i] \in SafeIdChars

\* header?.id && isSafeId(header.id) ? header.id : ""
SafeHeaderId(s) == IF isSafeId(HeaderId(s)) THEN HeaderId(s) ELSE <<>>

getSessionIdFromFile(file) ==
    IF isSafeId(HeaderId(file)) THEN HeaderId(file)
    ELSE IF isSafeId(FileNameId(file)) THEN FileNameId(file)
    ELSE <<>>

\* checkpointCache: null, or the list
NullCache == [null |-> TRUE, list |-> <<>>]

createInitialState ==
    [gitAvailable |-> FALSE,
     checkpointingFailed |-> FALSE,
     currentSessionId |-> <<>>,
     currentSessionFile |-> NoSession,
     checkpointCache |-> NullCache,
     cacheSessionIds |-> {},
     pendingCheckpoint |-> 0]

addToCache(st, cp) ==
    IF st.checkpointCache.null THEN st
    ELSE [st EXCEPT !.checkpointCache.list = Append(@, cp),
                    !.cacheSessionIds = @ \cup {cp.sessionId}]

setCache(st, cps) ==
    [st EXCEPT !.checkpointCache = [null |-> FALSE, list |-> cps],
               !.cacheSessionIds = {cps[i].sessionId : i \in DOMAIN cps}]

\* an update that also clears the failure flag
updateSessionInfoResets(st, s) ==
    [st EXCEPT !.currentSessionFile = s, !.currentSessionId = SafeHeaderId(s),
               !.checkpointingFailed = FALSE]

updateSessionInfo(st, s) ==
    [st EXCEPT !.currentSessionFile = s, !.currentSessionId = SafeHeaderId(s)]

\* git for-each-ref: the ref names in a fixed order
RECURSIVE SetToSeq(_)
SetToSeq(S) ==
    IF S = {} THEN <<>>
    ELSE LET x == CHOOSE y \in S : TRUE IN <<x>> \o SetToSeq(S \ {x})

listCheckpointRefs(rs) == SetToSeq(DOMAIN rs)

\* cp !== null
NotNullKeepsAll(cp) == TRUE

NotNull(cp) == cp # NullCheckpoint

\* no filter: undefined (or ""), both fail `!sessionFilter`
NoFilter == <<>>

\* cp !== null && (!sessionFilter || cp.sessionId === sessionFilter)
Kept(cps, sessionFilter) ==
    SelectSeq(cps, LAMBDA cp : NotNull(cp) /\ (Falsy(sessionFilter) \/ cp.sessionId = sessionFilter))

\* refs.map((ref) => loadCheckpointFromRef(cwd, ref))
LoadEach(rs, names) == [i \in 1..Len(names) |-> loadCheckpointFromRef(rs, names[i])]

\* loadAllCheckpoints(root, sessionFilter): every ref that loads and passes the
\* filter, in the order of the listing
loadAllCheckpoints(rs, sessionFilter) ==
    Kept(LoadEach(rs, listCheckpointRefs(rs)), sessionFilter)

\* ---- the lowPriority loop of loadAllCheckpoints
BATCH_SIZE == 3

\* a slice that loses the last ref of a full batch
BatchSliceShort(names, i) ==
    SubSeq(names, i + 1,
           IF i + BATCH_SIZE - 1 < Len(names) THEN i + BATCH_SIZE - 1 ELSE Len(names))

\* refs.slice(i, i + BATCH_SIZE), i counted from 0
BatchSlice(names, i) ==
    SubSeq(names, i + 1, IF i + BATCH_SIZE < Len(names) THEN i + BATCH_SIZE ELSE Len(names))

\* ---- saveAndRestore
\* createOk: createCheckpoint (and the repo root lookup before it) succeeded;
\* n: how many git commands of restoreCheckpoint ran before one failed.
saveAndRestoreAlwaysRestores(st, r, rs, ms, target, createOk, n) ==
    LET beforeId == BeforeRestoreId(st.currentSessionId, ms)
        cp == createCheckpoint(r, beforeId, 0, st.currentSessionId, ms)
        complete == n = Len(RestoreCommands(target))
    IN  [state |-> IF createOk THEN addToCache(st, cp.data) ELSE st,
         refs |-> IF createOk THEN UpdateRef(rs, beforeId, cp.commit) ELSE rs,
         repo |-> RunRestore(r, target, n),
         beforeCreated |-> createOk, restoreInvoked |-> TRUE, restoreCompleted |-> complete,
         beforeId |-> beforeId,
         notes |-> IF complete THEN <<"info: Files restored to checkpoint">>
                   ELSE <<"error: Restore failed">>]

\* a saveAndRestore that reports success before it restores
saveAndRestoreNotifiesEarly(st, r, rs, ms, target, createOk, n) ==
    LET beforeId == BeforeRestoreId(st.currentSessionId, ms)
        cp == createCheckpoint(r, beforeId, 0, st.currentSessionId, ms)
        complete == n = Len(RestoreCommands(target))
    IN  IF ~createOk
        THEN [state |-> st, refs |-> rs, repo |-> r,
              beforeCreated |-> FALSE, restoreInvoked |-> FALSE, restoreCompleted |-> FALSE,
              beforeId |-> beforeId,
              notes |-> <<"error: Restore failed">>]
        ELSE [state |-> addToCache(st, cp.data),
              refs |-> UpdateRef(rs, beforeId, cp.commit),
              repo |-> RunRestore(r, target, n),
              beforeCreated |-> TRUE, restoreInvoked |-> TRUE, restoreCompleted |-> complete,
              beforeId |-> beforeId,
              notes |-> <<"info: Files restored to checkpoint">>
                        \o (IF complete THEN <<>> ELSE <<"error: Restore failed">>)]

\* The try block runs createCheckpoint, addToCache, restoreCheckpoint and the
\* success notification in this order; whatever throws ends it, and the catch
\* block sends the error notification.
saveAndRestore(st, r, rs, ms, target, createOk, n) ==
    LET beforeId == BeforeRestoreId(st.currentSessionId, ms)
        cp == createCheckpoint(r, beforeId, 0, st.currentSessionId, ms)
        complete == n = Len(RestoreCommands(target))
        threw == ~createOk \/ ~complete
    IN  [state |-> IF createOk THEN addToCache(st, cp.data) ELSE st,
         refs |-> IF createOk THEN UpdateRef(rs, beforeId, cp.commit) ELSE rs,
         repo |-> IF createOk THEN RunRestore(r, target, n) ELSE r,
         beforeCreated |-> createOk, restoreInvoked |-> createOk,
         restoreCompleted |-> createOk /\ complete,
         beforeId |-> beforeId,
         notes |-> (IF createOk /\ complete THEN <<"info: Files restored to checkpoint">>
                    ELSE <<>>)
                   \o (IF threw THEN <<"error: Restore failed">> ELSE <<>>)]

\* ---- values before anything ran
NoTask == [pc |-> "none", turnIndex |-> 0, timestamp |-> 0, sessionAtEvent |-> <<>>,
           created |-> NoCheckpoint]

NoPreload == [pc |-> "none", list |-> <<>>]

NoPrompt ==
    [handler |-> "idle", load |-> "idle", kind |-> "fork", header |-> "s1", awaited |-> 0,
     count |-> 0, picked |-> "none",
     choice |-> "none", candidates |-> <<>>, result |-> "none", notes |-> <<>>]

NoRestoreLog ==
    [ran |-> FALSE, promptNo |-> 0, beforeCreated |-> FALSE, restoreInvoked |-> FALSE,
     restoreCompleted |-> FALSE,
     beforeId |-> <<>>, target |-> NoCheckpoint,
     repoBefore |-> [head |-> ZEROS, index |-> EmptyTree, worktree |-> EmptyTree],
     repoAfter |-> [head |-> ZEROS, index |-> EmptyTree, worktree |-> EmptyTree]]

ExtIdle ==
    /\ isRepo = FALSE
    /\ hostSession = "s1"
    /\ state = createInitialState
    /\ turnTasks = <<>>
    /\ preload = NoPreload
    /\ prompt = NoPrompt
    /\ restoreLog = NoRestoreLog
    /\ returnedEarly = {}

\* The extension right after pi loaded it: outside of a repository, in one
\* without a commit or in one with a commit, everything clean.
InitialRepos ==
    {[head |-> h, index |-> EmptyTree, worktree |-> EmptyTree] : h \in {ZEROS, CommitOf(EmptyTree)}}

ExtInit ==
    /\ isRepo \in BOOLEAN
    /\ hostSession = "s1"
    /\ state = createInitialState
    /\ turnTasks = <<>>
    /\ preload = NoPreload
    /\ prompt = NoPrompt
    /\ restoreLog = NoRestoreLog
    /\ returnedEarly = {}
    /\ repo \in InitialRepos
    /\ refs = NoRefs
    /\ now = 0

NotExt == <<closestVars, gateVars, restoreVars, tripVars, loadVars, ralphVars>>

\* ---- a session resumed in a repository that an earlier run of pi left
\* The refs of the earlier run: a checkpoint of this session (id "a") and one
\* of a session that is no ancestor of any session of the host (id "z").
EarlierRepo == [head |-> CommitOf(EmptyTree), index |-> EmptyTree, worktree |-> EmptyTree]

EarlierCheckpoint(sessionId) ==
    createCheckpoint(EarlierRepo, TurnId(sessionId, 0, 0), 0, sessionId, 0)

EarlierRefs ==
    LET a == EarlierCheckpoint(<<"a">>)
        z == EarlierCheckpoint(<<"z">>)
    IN  [id \in {a.data.id, z.data.id} |-> IF id = a.data.id THEN a.commit ELSE z.commit]

ResumeInit ==
    /\ isRepo = TRUE
    /\ hostSession = "s1"
    /\ state = createInitialState
    /\ turnTasks = <<>>
    /\ preload = NoPreload
    /\ prompt = NoPrompt
    /\ restoreLog = NoRestoreLog
    /\ returnedEarly = {}
    /\ repo = EarlierRepo
    /\ refs \in {NoRefs, EarlierRefs}
    /\ now = 1

\* ---- the environment: the agent or the user changes a file
EnvEdit ==
    /\ isRepo
    /\ \E f \in Files, c \in Contents :
        /\ repo.worktree[f] # c
        /\ repo' = [repo EXCEPT !.worktree[f] = c]
    /\ UNCHANGED <<refs, now, isRepo, returnedEarly, hostSession, state, turnTasks, preload, prompt,
                   restoreLog, NotExt>>

\* ---- session handlers
\* git rev-parse --is-inside-work-tree succeeds or throws
isGitRepoAssumed(inWorkTree) == TRUE

isGitRepo(inWorkTree) == inWorkTree

\* pi.on("session_start")
SessionStart ==
    /\ preload.pc \in {"none", "done"}
    /\ IF ~isGitRepo(isRepo)
       THEN /\ state' = [state EXCEPT !.gitAvailable = FALSE]
            /\ returnedEarly' = {"session_start"}
            /\ UNCHANGED preload
       ELSE /\ state' = updateSessionInfo([state EXCEPT !.gitAvailable = TRUE], hostSession)
            /\ returnedEarly' = {}
            /\ preload' = [pc |-> "scheduled", list |-> <<>>]
    /\ UNCHANGED <<gitVars, isRepo, hostSession, turnTasks, prompt, restoreLog, NotExt>>

\* the host resumes another session s, then pi.on("session_switch")
SessionSwitch ==
    /\ \E s \in SessionNames :
        /\ SessionRank(s) > SessionRank(hostSession)
        /\ ParentSession(s) # hostSession
        /\ hostSession' = s
        /\ state' = IF state.gitAvailable THEN updateSessionInfo(state, s) ELSE state
    /\ returnedEarly' = IF state.gitAvailable THEN returnedEarly
                        ELSE returnedEarly \cup {"session_switch"}
    /\ UNCHANGED <<gitVars, isRepo, turnTasks, preload, prompt, restoreLog, NotExt>>

\* the host forks the session into s, then pi.on("session_fork")
SessionFork ==
    /\ \E s \in SessionNames :
        /\ ParentSession(s) = hostSession
        /\ hostSession' = s
        /\ state' = IF state.gitAvailable THEN updateSessionInfo(state, s) ELSE state
    /\ returnedEarly' = IF state.gitAvailable THEN returnedEarly
                        ELSE returnedEarly \cup {"session_fork"}
    /\ UNCHANGED <<gitVars, isRepo, turnTasks, preload, prompt, restoreLog, NotExt>>

\* ---- the preload started by session_start (setImmediate)
\* loadAllCheckpoints(root, undefined, true) reads the refs ...
PreloadList ==
    /\ preload.pc = "scheduled"
    /\ preload' = [pc |-> "listed", list |-> loadAllCheckpoints(refs, NoFilter)]
    /\ UNCHANGED <<gitVars, isRepo, returnedEarly, hostSession, state, turnTasks, prompt, restoreLog, NotExt>>

\* ... and setCache stores them when the batches are through
PreloadFinish ==
    /\ preload.pc = "listed"
    /\ state' = setCache(state, preload.list)
    /\ preload' = [preload EXCEPT !.pc = "done"]
    /\ UNCHANGED <<gitVars, isRepo, returnedEarly, hostSession, turnTasks, prompt, restoreLog, NotExt>>

\* getCachedRepoRoot threw: the catch of the setImmediate body drops it
PreloadFail ==
    /\ preload.pc = "scheduled"
    /\ preload' = [preload EXCEPT !.pc = "done"]
    /\ UNCHANGED <<gitVars, isRepo, returnedEarly, hostSession, state, turnTasks, prompt, restoreLog, NotExt>>

\* ---- turn_start
\* pi.on("turn_start"): the handler up to the start of the async body. The
\* event carries the host's clock; a turn takes more than one clock tick.
TurnStartUpTo(limit) ==
    IF ~state.gitAvailable
    THEN /\ returnedEarly' = returnedEarly \cup {"turn_start"}
         /\ UNCHANGED <<gitVars, isRepo, hostSession, state, turnTasks, preload, prompt,
                        restoreLog, NotExt>>
    ELSE /\ Len(turnTasks) < limit
         /\ ~state.checkpointingFailed
         /\ LET sid == IF Falsy(state.currentSessionId)
                          /\ state.currentSessionFile # NoSession
                       THEN getSessionIdFromFile(state.currentSessionFile)
                       ELSE state.currentSessionId
            IN  /\ ~Falsy(sid)
                /\ \E turnIndex \in 0..Len(turnTasks) :
                    turnTasks' = Append(turnTasks,
                        [pc |-> "root", turnIndex |-> turnIndex, timestamp |-> now,
                         sessionAtEvent |-> sid, created |-> NoCheckpoint])
                /\ state' = [state EXCEPT !.currentSessionId = sid,
                                          !.pendingCheckpoint = Len(turnTasks) + 1]
         /\ now' = now + 1
         /\ UNCHANGED <<repo, refs, isRepo, returnedEarly, hostSession, preload, prompt,
                        restoreLog, NotExt>>

TurnStart == TurnStartUpTo(MaxTurns)

\* turn_start of a turn that follows the one before while its checkpoint can
\* still be in the making
TurnStartBackToBack == TurnStartUpTo(MaxBackToBack)

\* createTurnCheckpoint after `await getCachedRepoRoot(cwd)`: it builds the id
\* from state.currentSessionId as it is now, creates the checkpoint and adds it
\* to the cache.
TurnTaskRun ==
    \E i \in 1..Len(turnTasks) :
        /\ turnTasks[i].pc = "root"
        /\ LET t == turnTasks[i]
               sid == state.currentSessionId
               cp == createCheckpoint(repo, TurnId(sid, t.turnIndex, t.timestamp),
                                      t.turnIndex, sid, now)
           IN  /\ refs' = UpdateRef(refs, cp.data.id, cp.commit)
               /\ state' = addToCache(state, cp.data)
               /\ turnTasks' = [turnTasks EXCEPT ![i].pc = "done", ![i].created = cp.data]
        /\ UNCHANGED <<repo, now, isRepo, returnedEarly, hostSession, preload, prompt, restoreLog, NotExt>>

\* a git command of the turn checkpoint threw: catch { checkpointingFailed = true }
TurnTaskFail ==
    \E i \in 1..Len(turnTasks) :
        /\ turnTasks[i].pc = "root"
        /\ turnTasks' = [turnTasks EXCEPT ![i].pc = "failed"]
        /\ state' = [state EXCEPT !.checkpointingFailed = TRUE]
        /\ UNCHANGED <<gitVars, isRepo, returnedEarly, hostSession, preload, prompt, restoreLog, NotExt>>

\* ---- the restore prompt
TaskSettled(i) == IF i = 0 THEN TRUE ELSE turnTasks[i].pc \in {"done", "failed"}

\* the session ids of the fork lineage of header h, nearest first
RECURSIVE ParentChainIds(_)
ParentChainIds(s) ==
    IF ParentSession(s) = NoSession THEN <<>>
    ELSE (IF isSafeId(FileNameId(ParentSession(s))) THEN <<FileNameId(ParentSession(s))>>
          ELSE <<>>)
         \o ParentChainIds(ParentSession(s))

ChainSessionIds(st, h) ==
    LET first == IF isSafeId(HeaderId(h)) THEN <<HeaderId(h)>>
                 ELSE IF ~Falsy(st.currentSessionId) THEN <<st.currentSessionId>>
                 ELSE <<>>
        parents == ParentChainIds(h)
    IN  first \o SelectSeq(parents, LAMBDA id : id \notin Range(first))

\* a filter that keeps the checkpoints of every session
FilterChainKeepsAll(cps, sessionSet) == cps

\* list.filter((cp) => sessionSet.has(cp.sessionId))
FilterChain(cps, sessionSet) == SelectSeq(cps, LAMBDA cp : cp.sessionId \in sessionSet)

\* loadSessionChainCheckpoints after its await of the pending checkpoint:
\* the new state and the list it resolves to
loadSessionChainCheckpoints(st, rs, h) ==
    LET sessionIds == ChainSessionIds(st, h)
        sessionSet == Range(sessionIds)
        needsRefresh == \E id \in sessionSet : id \notin st.cacheSessionIds
        all == loadAllCheckpoints(rs, NoFilter)
    IN  IF Len(sessionIds) = 0 THEN [state |-> st, list |-> <<>>]
        ELSE IF ~st.checkpointCache.null /\ ~needsRefresh
        THEN [state |-> st, list |-> FilterChain(st.checkpointCache.list, sessionSet)]
        ELSE [state |-> setCache(st, all), list |-> FilterChain(all, sessionSet)]

\* pi.on("session_before_fork") / pi.on("session_before_tree"): the handler
\* starts the candidate load and shows the menu
PromptOpen ==
    \E kind \in {"fork", "tree"} :
        IF ~state.gitAvailable
        THEN /\ returnedEarly' = returnedEarly \cup
                     {IF kind = "fork" THEN "session_before_fork" ELSE "session_before_tree"}
             /\ UNCHANGED <<gitVars, isRepo, hostSession, state, turnTasks, preload,
                            prompt, restoreLog, NotExt>>
        ELSE /\ prompt.handler \in {"idle", "done"}
             /\ prompt.load # "waiting"
             /\ prompt.count < MaxPrompts
             /\ prompt' = [handler |-> "select", load |-> "waiting", kind |-> kind,
                           header |-> hostSession, awaited |-> state.pendingCheckpoint,
                           count |-> prompt.count + 1, picked |-> "none",
                           choice |-> "none", candidates |-> <<>>, result |-> "none",
                           notes |-> <<>>]
             /\ UNCHANGED <<gitVars, isRepo, returnedEarly, hostSession, state, turnTasks,
                            preload, restoreLog, NotExt>>

\* the candidate load runs once the awaited turn checkpoint has settled
PromptLoad ==
    /\ prompt.load = "waiting"
    /\ TaskSettled(prompt.awaited)
    /\ LET got == loadSessionChainCheckpoints(state, refs, prompt.header)
       IN  /\ state' = got.state
           /\ prompt' = [prompt EXCEPT !.load = "done", !.candidates = got.list]
    /\ UNCHANGED <<gitVars, isRepo, returnedEarly, hostSession, turnTasks, preload, restoreLog, NotExt>>

restoreOptions ==
    <<[label |-> "Restore all (files + conversation)", value |-> "all"],
      [label |-> "Conversation only (keep current files)", value |-> "conv"],
      [label |-> "Code only (restore files, keep conversation)", value |-> "code"],
      [label |-> "Cancel", value |-> "cancel"]>>

\* a lookup whose default restores everything
SelectedOrAll(picked) ==
    IF \E i \in 1..Len(restoreOptions) : restoreOptions[i].label = picked
    THEN restoreOptions[CHOOSE i \in 1..Len(restoreOptions) :
                           restoreOptions[i].label = picked].value
    ELSE "all"

\* restoreOptions.find((o) => o.label === choice)?.value ?? "cancel"
Selected(picked) ==
    IF \E i \in 1..Len(restoreOptions) : restoreOptions[i].label = picked
    THEN restoreOptions[CHOOSE i \in 1..Len(restoreOptions) :
                           restoreOptions[i].label = picked].value
    ELSE "cancel"

\* the user answers the menu or dismisses it (ctx.ui.select gives undefined)
PromptChoose ==
    /\ prompt.handler = "select"
    /\ \E picked \in {restoreOptions[i].label : i \in 1..Len(restoreOptions)} \cup {Undefined} :
        LET choice == Selected(picked)
        IN  prompt' = CASE choice = "cancel" ->
                        [prompt EXCEPT !.picked = picked, !.choice = choice,
                                       !.handler = "done", !.result = "cancel"]
                    [] choice = "conv" ->
                        [prompt EXCEPT !.picked = picked, !.choice = choice,
                                       !.handler = "done", !.result = "undefined"]
                    [] OTHER ->
                        [prompt EXCEPT !.picked = picked, !.choice = choice,
                                       !.handler = "awaitLoad"]
    /\ UNCHANGED <<gitVars, isRepo, returnedEarly, hostSession, state, turnTasks, preload, restoreLog, NotExt>>

CodeOnlyResult(kind) == IF kind = "fork" THEN "skipConversationRestore" ELSE "cancel"

\* no candidate: the handler warns and returns
PromptNoCheckpoints ==
    /\ prompt.handler = "awaitLoad" /\ prompt.load = "done"
    /\ Len(prompt.candidates) = 0
    /\ prompt' = [prompt EXCEPT
                     !.handler = "done",
                     !.notes = Append(@, "warning: No checkpoints available"),
                     !.result = IF prompt.choice = "code" THEN "cancel" ELSE "undefined"]
    /\ UNCHANGED <<gitVars, isRepo, returnedEarly, hostSession, state, turnTasks, preload, restoreLog, NotExt>>

\* the handler picks the closest candidate and runs saveAndRestore
PromptRestore ==
    /\ prompt.handler = "awaitLoad" /\ prompt.load = "done"
    /\ Len(prompt.candidates) > 0
    /\ \E ts \in 0..now, createOk \in BOOLEAN :
        LET target == findClosestCheckpoint(prompt.candidates, ts)
        IN  \E n \in 0..Len(RestoreCommands(target)) :
            LET out == saveAndRestore(state, repo, refs, now, target, createOk, n)
            IN  /\ (~createOk => n = 0)
                /\ state' = out.state
                /\ refs' = out.refs
                /\ repo' = out.repo
                /\ restoreLog' = [ran |-> TRUE, promptNo |-> prompt.count,
                                  beforeCreated |-> out.beforeCreated,
                                  restoreInvoked |-> out.restoreInvoked,
                                  restoreCompleted |-> out.restoreCompleted,
                                  beforeId |-> out.beforeId, target |-> target,
                                  repoBefore |-> repo, repoAfter |-> out.repo]
                /\ prompt' = [prompt EXCEPT
                                 !.handler = "done",
                                 !.notes = @ \o out.notes,
                                 !.result = IF prompt.choice = "code"
                                            THEN CodeOnlyResult(prompt.kind)
                                            ELSE "undefined"]
    /\ now' = now + 1
    /\ UNCHANGED <<isRepo, returnedEarly, hostSession, turnTasks, preload, NotExt>>

\* ==========================================================================
\* The parentSession walk of loadSessionChainCheckpoints (SpecChain)
\* ==========================================================================
\* The session files a parentSession field can name. The names of f1 and f2
\* end in _<uuid>.jsonl, the name of f3 does not.
ChainFileNames == {"f1", "f2", "f3"}

\* parentSession.match(/_([0-9a-f-]{36})\.jsonl$/): the uuid, <<>> without match
ChainFileUuid(f) ==
    CASE f = "f1" -> <<"a">>
      [] f = "f2" -> <<"b">>
      [] OTHER -> <<>>

\* What the first line of a file holds: "missing" (the file cannot be read,
\* head prints nothing), NoSession (a header without parentSession), or the
\* file its parentSession field names.
FirstLines == [ChainFileNames -> {"missing", NoSession} \cup ChainFileNames]

\* line ? extractJsonField(line, "parentSession") : undefined
ParentOfFile(files, f) == IF files[f] = "missing" THEN NoSession ELSE files[f]

NoWalk == [pc |-> "idle", headerId |-> <<>>, parentSession |-> NoSession, sessionIds |-> <<>>]

ChainIdle ==
    /\ chainFiles = [f \in ChainFileNames |-> NoSession]
    /\ walk = NoWalk

\* loadSessionChainCheckpoints is called with a header: its id (safe, unsafe or
\* absent) and its parentSession
ChainInit ==
    /\ chainFiles \in FirstLines
    /\ \E id \in {<<"h">>, <<"h", "/">>, <<>>}, parent \in ChainFileNames \cup {NoSession} :
        walk = [pc |-> "start", headerId |-> id, parentSession |-> parent,
                sessionIds |-> <<>>]

NotChain == <<closestVars, gateVars, gitVars, restoreVars, tripVars, extVars, ralphVars, loadJob>>

\* the function up to the loop: sessionIds and let parentSession
ChainStart ==
    /\ walk.pc = "start"
    /\ walk' = [walk EXCEPT
                   !.pc = "loop",
                   !.sessionIds = IF isSafeId(walk.headerId) THEN <<walk.headerId>>
                                  ELSE IF ~Falsy(state.currentSessionId)
                                  THEN <<state.currentSessionId>>
                                  ELSE <<>>]
    /\ UNCHANGED <<chainFiles, NotChain>>

\* while (parentSession): the match on the file name, the push, and the call of
\* readFirstLine, whose promise is awaited
ChainStep ==
    /\ walk.pc = "loop"
    /\ walk.parentSession # NoSession
    /\ LET uuid == ChainFileUuid(walk.parentSession)
       IN  walk' = [walk EXCEPT
                      !.pc = "reading",
                      !.sessionIds =
                          IF isSafeId(uuid) /\ uuid \notin Range(walk.sessionIds)
                          THEN Append(@, uuid) ELSE @]
    /\ UNCHANGED <<chainFiles, NotChain>>

\* head closes (or fails to start): readFirstLine resolves, parentSession is
\* assigned and the loop condition is tested again
ChainRead ==
    /\ walk.pc = "reading"
    /\ walk' = [walk EXCEPT
                   !.pc = "loop",
                   !.parentSession = ParentOfFile(chainFiles, walk.parentSession)]
    /\ UNCHANGED <<chainFiles, NotChain>>

\* parentSession is undefined: the loop is left
ChainExit ==
    /\ walk.pc = "loop"
    /\ walk.parentSession = NoSession
    /\ walk' = [walk EXCEPT !.pc = "done"]
    /\ UNCHANGED <<chainFiles, NotChain>>

\* ==========================================================================
\* loadAllCheckpoints over any set of refs (SpecLoad)
\* ==========================================================================
\* ref names r1, r2, ...
LoadRefNames == {<<"r", DigitChars[k + 1]>> : k \in 1..MaxRefs}

\* What a ref can point to: the commit of a checkpoint of session a or b, such
\* a commit whose message lacks the turn line or the worktree-tree line or the
\* created line, and an object that cannot be read.
SampleCommit(sessionId) ==
    createCheckpoint([head |-> ZEROS, index |-> EmptyTree, worktree |-> EmptyTree],
                     <<"x">>, 1, sessionId, 5).commit

LoadObjects ==
    {SampleCommit(<<"a">>), SampleCommit(<<"b">>),
     [SampleCommit(<<"a">>) EXCEPT !.message.turn = <<>>],
     [SampleCommit(<<"b">>) EXCEPT !.message.worktreeTree = <<>>],
     [SampleCommit(<<"a">>) EXCEPT !.message.created = <<>>],
     [SampleCommit(<<"a">>) EXCEPT !.kind = "missing"]}

\* the ref stores: every assignment of objects to some of the names
RefStores ==
    UNION {[names -> LoadObjects] : names \in SUBSET LoadRefNames}

LoadFilters == {NoFilter, <<"a">>, <<"b">>}

NoLoadJob ==
    [pc |-> "ready", sessionFilter |-> NoFilter, lowPriority |-> FALSE,
     names |-> <<>>, i |-> 0, results |-> <<>>]

LoadIdle == loadJob = NoLoadJob /\ ChainIdle

LoadInit ==
    /\ refs \in RefStores
    /\ repo = [head |-> ZEROS, index |-> EmptyTree, worktree |-> EmptyTree]
    /\ now = 0
    /\ \E f \in LoadFilters, low \in BOOLEAN :
        loadJob = [NoLoadJob EXCEPT !.sessionFilter = f, !.lowPriority = low]
    /\ ChainIdle

NotLoad == <<closestVars, gateVars, restoreVars, tripVars, extVars, ralphVars>>

\* loadAllCheckpoints(cwd, sessionFilter): the call without lowPriority
LoadAll ==
    /\ loadJob.pc = "ready" /\ ~loadJob.lowPriority
    /\ loadJob' = [loadJob EXCEPT !.pc = "done",
                                  !.names = listCheckpointRefs(refs),
                                  !.results = loadAllCheckpoints(refs, loadJob.sessionFilter)]
    /\ UNCHANGED <<chainFiles, walk>>
    /\ UNCHANGED <<gitVars, NotLoad>>

\* lowPriority: const refs = await listCheckpointRefs(cwd, true)
LoadLowList ==
    /\ loadJob.pc = "ready" /\ loadJob.lowPriority
    /\ loadJob' = [loadJob EXCEPT !.pc = "loop", !.names = listCheckpointRefs(refs)]
    /\ UNCHANGED <<chainFiles, walk>>
    /\ UNCHANGED <<gitVars, NotLoad>>

\* one round of the for loop, up to its setImmediate
LoadLowBatch ==
    /\ loadJob.pc = "loop"
    /\ loadJob.i < Len(loadJob.names)
    /\ LET batch == BatchSlice(loadJob.names, loadJob.i)
       IN  loadJob' = [loadJob EXCEPT
                          !.results = @ \o Kept(LoadEach(refs, batch), loadJob.sessionFilter),
                          !.i = @ + BATCH_SIZE]
    /\ UNCHANGED <<chainFiles, walk>>
    /\ UNCHANGED <<gitVars, NotLoad>>

\* the loop condition fails: return results
LoadLowReturn ==
    /\ loadJob.pc = "loop"
    /\ loadJob.i >= Len(loadJob.names)
    /\ loadJob' = [loadJob EXCEPT !.pc = "done"]
    /\ UNCHANGED <<chainFiles, walk>>
    /\ UNCHANGED <<gitVars, NotLoad>>

\* ==========================================================================
\* ralph_loop: the loop of execute (SpecLoop)
\* ==========================================================================
DEFAULT_LOOP_MAX_ITERATIONS == 10

\* ---- texts
\* String(n) of an integer
NumberText(n) == IF n < 0 THEN <<"-">> \o NumberToString(0 - n) ELSE NumberToString(n)

\* Number.parseInt(text, 10) of an optional sign and digits
ParseIntSigned(text) ==
    IF text[1] = "-" THEN 0 - parseInt(Tail(text)) ELSE parseInt(text)

WhiteSpace == {" ", "NL"}

\* String.prototype.trim
RECURSIVE Trim(_)
Trim(text) ==
    IF Len(text) = 0 THEN text
    ELSE IF text[1] \in WhiteSpace THEN Trim(Tail(text))
    ELSE IF text[Len(text)] \in WhiteSpace THEN Trim(SubSeq(text, 1, Len(text) - 1))
    ELSE text

LowerChar(c) ==
    CASE c = "T" -> "t" [] c = "R" -> "r" [] c = "U" -> "u" [] c = "E" -> "e"
      [] OTHER -> c

\* String.prototype.toLowerCase
ToLowerCase(text) == [k \in 1..Len(text) |-> LowerChar(text[k])]

\* ---- parseLoopNumber(value, fallback, allowZero); a null or empty value is <<>>
NullNumber == [null |-> TRUE, n |-> 0]

parseLoopNumber(value, fallback, allowZero) ==
    LET trimmed == Trim(value)
    IN  IF Len(trimmed) = 0 THEN [null |-> FALSE, n |-> fallback]
        ELSE LET parsed == ParseIntSigned(trimmed)
             IN  IF parsed < 0 THEN NullNumber
                 ELSE IF ~allowZero /\ parsed = 0 THEN NullNumber
                 ELSE [null |-> FALSE, n |-> parsed]

\* ---- checkLoopCondition: stdout trimmed, compared in lower case
\* a check that lets every output pass
ShouldContinueAlways(stdout) == TRUE

ShouldContinue(stdout) == ToLowerCase(Trim(stdout)) = <<"t", "r", "u", "e">>

\* what the condition command can print
ConditionOutputs ==
    {<<"t", "r", "u", "e", "NL">>, <<"T", "R", "U", "E", "NL">>, <<" ", "T", "r", "u", "e">>,
     <<"f", "a", "l", "s", "e", "NL">>, <<>>, <<"t", "r", "u", "e", " ", "1", "NL">>}

\* params.maxIterations: omitted (undefined, which execute turns into null,
\* both written <<>>), or a number as String() prints it
Omitted == <<>>

MaxIterationsParams == {Omitted} \cup {NumberText(n) : n \in (0 - 1)..MaxLoopParam}

NoLoop ==
    [pc |-> "call", param |-> Omitted, maxIterations |-> 0, i |-> 0, stopReason |-> "none",
     aborted |-> FALSE, condRuns |-> 0, bodyRuns |-> 0, iterations |-> 0,
     lastCondition |-> <<>>, isError |-> FALSE, errors |-> 0]

LoopIdle == loop = NoLoop

LoopInit == \E param \in MaxIterationsParams : loop = [NoLoop EXCEPT !.param = param]

NotRalph == <<closestVars, gateVars, gitVars, restoreVars, tripVars, extVars, loadVars>>

\* execute up to the loop: maxIterations is parsed and validated
LoopValidate ==
    /\ loop.pc = "call"
    /\ LET maxIterations ==
               parseLoopNumber(loop.param, DEFAULT_LOOP_MAX_ITERATIONS, FALSE)
       IN  loop' = IF maxIterations.null \/ maxIterations.n <= 0
                   THEN [loop EXCEPT !.pc = "done", !.stopReason = "invalid-params",
                                     !.isError = TRUE]
                   ELSE [loop EXCEPT !.pc = "head", !.stopReason = "running",
                                     !.maxIterations = maxIterations.n]
    /\ UNCHANGED <<pool, run, NotRalph>>

\* the user aborts the tool call
LoopAbort ==
    /\ loop.pc \in {"head", "body"}
    /\ ~loop.aborted
    /\ loop' = [loop EXCEPT !.aborted = TRUE]
    /\ UNCHANGED <<pool, run, NotRalph>>

\* the loop head: for (i < maxIterations), the abort test, and the condition
\* command with what it printed
LoopHead ==
    /\ loop.pc = "head"
    /\ IF loop.i >= loop.maxIterations
       THEN loop' = [loop EXCEPT !.pc = "done", !.stopReason = "max-iterations"]
       ELSE IF loop.aborted
       THEN loop' = [loop EXCEPT !.pc = "done", !.stopReason = "aborted", !.isError = TRUE]
       ELSE \E stdout \in ConditionOutputs :
               loop' = IF ShouldContinue(stdout)
                       THEN [loop EXCEPT !.pc = "body", !.condRuns = @ + 1,
                                         !.lastCondition = Trim(stdout)]
                       ELSE [loop EXCEPT !.pc = "done", !.condRuns = @ + 1,
                                         !.lastCondition = Trim(stdout),
                                         !.stopReason = "condition-false"]
    /\ UNCHANGED <<pool, run, NotRalph>>

\* a body whose error result lets the loop go on
LoopBodyGoesOn ==
    /\ loop.pc = "body"
    /\ \E outcome \in {"ok", "isError", "throws"} :
        loop' = CASE outcome = "ok" ->
                        [loop EXCEPT !.pc = "head", !.bodyRuns = @ + 1, !.iterations = @ + 1,
                                     !.i = @ + 1]
                  [] outcome = "isError" ->
                        [loop EXCEPT !.pc = "head", !.bodyRuns = @ + 1, !.iterations = @ + 1,
                                     !.errors = @ + 1, !.i = @ + 1]
                  [] OTHER ->
                        [loop EXCEPT !.pc = "done", !.bodyRuns = @ + 1,
                                     !.stopReason = IF loop.aborted THEN "aborted" ELSE "error",
                                     !.isError = TRUE]
    /\ UNCHANGED <<pool, run, NotRalph>>

\* executeSubagentOnce and the rest of the loop body: it returns a result, an
\* error result, or throws
LoopBody ==
    /\ loop.pc = "body"
    /\ \E outcome \in {"ok", "isError", "throws"} :
        loop' = CASE outcome = "ok" ->
                        [loop EXCEPT !.pc = "head", !.bodyRuns = @ + 1, !.iterations = @ + 1,
                                     !.i = @ + 1]
                  [] outcome = "isError" ->
                        [loop EXCEPT !.pc = "done", !.bodyRuns = @ + 1, !.iterations = @ + 1,
                                     !.errors = @ + 1,
                                     !.stopReason = "error", !.isError = TRUE]
                  [] OTHER ->
                        [loop EXCEPT !.pc = "done", !.bodyRuns = @ + 1,
                                     !.stopReason = IF loop.aborted THEN "aborted" ELSE "error",
                                     !.isError = TRUE]
    /\ UNCHANGED <<pool, run, NotRalph>>

\* ==========================================================================
\* ralph_loop: the subagent processes of parallel mode (SpecPool)
\* ==========================================================================
MAX_PARALLEL_TASKS == 8

MAX_CONCURRENCY == 4

\* one worker per task
LimitPerTask(concurrency, n) == n

\* Math.max(1, Math.min(concurrency, items.length))
Limit(concurrency, n) ==
    LET m == IF concurrency < n THEN concurrency ELSE n
    IN  IF m < 1 THEN 1 ELSE m

NoPool ==
    [pc |-> "call", n |-> 0, unknown |-> {}, nextIndex |-> 0, workers |-> <<>>,
     aborted |-> FALSE, started |-> 0, finished |-> 0]

PoolIdle == pool = NoPool

\* no subagent run: the call has not reached executeSubagentOnce
NoRun ==
    [mode |-> "none", sleepMs |-> 0, known |-> TRUE, chain |-> <<>>, step |-> 0,
     previousOutput |-> <<>>, tasks |-> <<>>, outputs |-> <<>>, proc |-> "none",
     wasAborted |-> FALSE, spawned |-> 0, failedAt |-> 0, abortAt |-> "none",
     atAbort |-> [condRuns |-> 0, spawned |-> 0]]

RunIdle == run = NoRun

\* params.tasks: n tasks (indexes from 0), some of them naming an unknown agent
PoolInit ==
    \E n \in 0..MaxTasks :
        \E unknown \in SUBSET (0..(n - 1)) :
            pool = [NoPool EXCEPT !.n = n, !.unknown = unknown]

\* The workers whose fn call has settled go on in turn: each takes nextIndex++,
\* returns when the items are used up, gets its result at once when the agent
\* is unknown, and otherwise spawns a process and waits for it.
RECURSIVE Advance(_, _)
Advance(p, w) ==
    IF \A k \in 1..Len(p.workers) : p.workers[k].pc # "settled" THEN p
    ELSE IF w > Len(p.workers) THEN Advance(p, 1)
    ELSE IF p.workers[w].pc # "settled" THEN Advance(p, w + 1)
    ELSE LET current == p.nextIndex
             q == [p EXCEPT !.nextIndex = @ + 1]
         IN  IF current >= p.n
             THEN Advance([q EXCEPT !.workers[w].pc = "returned"], w + 1)
             ELSE IF current \in p.unknown
             THEN Advance([q EXCEPT !.workers[w].task = current], w + 1)
             ELSE Advance([q EXCEPT !.workers[w].pc = "running", !.workers[w].task = current,
                                    !.started = @ + 1], w + 1)

Running(p) == {w \in 1..Len(p.workers) : p.workers[w].pc = "running"}

\* the workers are made and each runs up to its first await
PoolStarted(p) ==
    IF p.n = 0 THEN [p EXCEPT !.pc = "resolved"]
    ELSE Advance([p EXCEPT
                     !.pc = "waiting",
                     !.workers = [w \in 1..Limit(MAX_CONCURRENCY, p.n) |->
                                     [pc |-> "settled", task |-> 0 - 1]]], 1)

\* mapWithConcurrencyLimit(params.tasks, MAX_CONCURRENCY, fn) up to its await
PoolStart ==
    /\ pool.pc = "call"
    /\ pool.n <= MAX_PARALLEL_TASKS
    /\ pool' = PoolStarted(pool)
    /\ UNCHANGED <<loop, run, NotRalph>>

\* the user aborts: the running processes get SIGTERM and close later
PoolAbort ==
    /\ pool.pc = "waiting"
    /\ ~pool.aborted
    /\ Running(pool) # {}
    /\ pool' = [pool EXCEPT !.aborted = TRUE]
    /\ UNCHANGED <<loop, run, NotRalph>>

\* the process of worker w closes: its runSingleAgent returns, or throws when
\* it was aborted; a worker whose fn returned goes on with the next item
ProcessClose ==
    /\ pool.pc = "waiting"
    /\ \E w \in Running(pool) :
        pool' = IF pool.aborted
                THEN [pool EXCEPT !.workers[w].pc = "threw", !.finished = @ + 1]
                ELSE Advance([pool EXCEPT !.workers[w].pc = "settled", !.finished = @ + 1], 1)
    /\ UNCHANGED <<loop, run, NotRalph>>

\* Promise.all(workers) settles when no process is left
PoolSettle ==
    /\ pool.pc = "waiting"
    /\ Running(pool) = {}
    /\ pool' = [pool EXCEPT !.pc = IF \E w \in 1..Len(pool.workers) : pool.workers[w].pc = "threw"
                                   THEN "rejected" ELSE "resolved"]
    /\ UNCHANGED <<loop, run, NotRalph>>

\* ==========================================================================
\* ralph_loop: the subagent runs of an iteration (SpecExec)
\* ==========================================================================
DEFAULT_LOOP_SLEEP_MS == 1000

\* ---- texts of chain mode. A text is a sequence of characters; the
\* placeholder is the one element "{previous}", and "GRAVE" is the backtick.
\* GetSubstitution of String.prototype.replace for a pattern without groups:
\* $$ gives $, $& the matched text, $ with a backtick the text before the
\* match, $' the text after it; any other $ stays as it is
RECURSIVE GetSubstitution(_, _, _)
GetSubstitution(replacement, before, after) ==
    IF Len(replacement) = 0 THEN <<>>
    ELSE IF replacement[1] = "$" /\ Len(replacement) >= 2
    THEN LET rest == SubSeq(replacement, 3, Len(replacement))
         IN  CASE replacement[2] = "$" -> <<"$">> \o GetSubstitution(rest, before, after)
               [] replacement[2] = "&" ->
                      <<"{previous}">> \o GetSubstitution(rest, before, after)
               [] replacement[2] = "GRAVE" -> before \o GetSubstitution(rest, before, after)
               [] replacement[2] = "'" -> after \o GetSubstitution(rest, before, after)
               [] OTHER -> <<"$">> \o GetSubstitution(Tail(replacement), before, after)
    ELSE <<replacement[1]>> \o GetSubstitution(Tail(replacement), before, after)

RECURSIVE ReplaceFrom(_, _, _)
ReplaceFrom(task, k, previousOutput) ==
    IF k > Len(task) THEN <<>>
    ELSE IF task[k] = "{previous}"
    THEN GetSubstitution(previousOutput, SubSeq(task, 1, k - 1),
                         SubSeq(task, k + 1, Len(task)))
         \o ReplaceFrom(task, k + 1, previousOutput)
    ELSE <<task[k]>> \o ReplaceFrom(task, k + 1, previousOutput)

\* step.task.replace(/\{previous\}/g, previousOutput)
ReplacePrevious(task, previousOutput) == ReplaceFrom(task, 1, previousOutput)

\* the first text part of a message's content, <<>> with found FALSE if none
RECURSIVE FirstText(_)
FirstText(content) ==
    IF Len(content) = 0 THEN [found |-> FALSE, text |-> <<>>]
    ELSE IF content[1].type = "text" THEN [found |-> TRUE, text |-> content[1].text]
    ELSE FirstText(Tail(content))

\* getFinalOutput(messages)
RECURSIVE getFinalOutput(_)
getFinalOutput(messages) ==
    IF Len(messages) = 0 THEN <<>>
    ELSE LET msg == messages[Len(messages)]
             front == SubSeq(messages, 1, Len(messages) - 1)
         IN  IF msg.role = "assistant" /\ FirstText(msg.content).found
             THEN FirstText(msg.content).text
             ELSE getFinalOutput(front)

\* ---- what a call is given and what a subagent process can do
TextPart(t) == [type |-> "text", text |-> t]

AssistantMessage(content) == [role |-> "assistant", content |-> content]

\* the messages a subagent process can print before it closes
MessageLists ==
    {<<>>,
     <<AssistantMessage(<<TextPart(<<"o">>)>>)>>,
     <<AssistantMessage(<<TextPart(<<"$", "&">>)>>)>>,
     <<AssistantMessage(<<TextPart(<<"$", "$", "o">>)>>)>>,
     <<AssistantMessage(<<TextPart(<<"o">>)>>),
       AssistantMessage(<<[type |-> "toolCall", text |-> <<>>]>>),
       [role |-> "toolResult", content |-> <<TextPart(<<"r">>)>>]>>}

\* how a process that was not killed ends: exit code, stopReason of its last
\* assistant message, and its messages
ProcOutcomes ==
    {[exitCode |-> 0, stopReason |-> "stop", messages |-> m] : m \in MessageLists}
    \cup {[exitCode |-> 1, stopReason |-> "stop", messages |-> <<>>],
          [exitCode |-> 0, stopReason |-> "error", messages |-> <<>>],
          [exitCode |-> 0, stopReason |-> "aborted", messages |-> <<>>]}

\* the task templates of chain steps
Templates == {<<"t">>, <<"{previous}">>, <<"t", "{previous}", "{previous}">>}

ChainSteps == {[task |-> t, known |-> k] : t \in Templates, k \in BOOLEAN}

\* params.chain: one to MaxChain steps
Chains == UNION {[1..n -> ChainSteps] : n \in 1..MaxChain}

\* the subagent processes started by this call so far
TotalSpawned == run.spawned + pool.started

\* a call in single, chain or parallel mode with a valid maxIterations
ExecInit ==
    /\ \E n \in 1..MaxLoopParam : loop = [NoLoop EXCEPT !.param = NumberText(n)]
    /\ \E mode \in {"single", "chain", "parallel"}, sleepMs \in {0, DEFAULT_LOOP_SLEEP_MS} :
        CASE mode = "single" ->
               /\ \E known \in BOOLEAN :
                     run = [NoRun EXCEPT !.mode = mode, !.sleepMs = sleepMs, !.known = known]
               /\ pool = NoPool
          [] mode = "chain" ->
               /\ \E chain \in Chains :
                     run = [NoRun EXCEPT !.mode = mode, !.sleepMs = sleepMs, !.chain = chain]
               /\ pool = NoPool
          [] OTHER ->
               /\ run = [NoRun EXCEPT !.mode = mode, !.sleepMs = sleepMs]
               /\ \E n \in 1..MaxTasks :
                     \E unknown \in {{}, {0}, {n - 1}} :
                         pool = [NoPool EXCEPT !.n = n, !.unknown = unknown]

\* the catch of the loop that reports a throw as an error whatever the signal
IterationThrewReportsError(l) ==
    [l EXCEPT !.pc = "done", !.bodyRuns = @ + 1, !.stopReason = "error", !.isError = TRUE]

\* executeSubagentOnce threw: the catch of the loop
IterationThrew(l) ==
    [l EXCEPT !.pc = "done", !.bodyRuns = @ + 1,
              !.stopReason = IF l.aborted THEN "aborted" ELSE "error",
              !.isError = TRUE]

\* executeSubagentOnce returned: the push, the break on an error result, the
\* sleep between iterations, and i++
IterationDone(l, r, isError) ==
    IF isError
    THEN [l EXCEPT !.pc = "done", !.bodyRuns = @ + 1, !.iterations = @ + 1,
                   !.errors = @ + 1, !.stopReason = "error", !.isError = TRUE]
    ELSE IF r.sleepMs > 0 /\ l.i < l.maxIterations - 1
    THEN [l EXCEPT !.pc = "sleep", !.bodyRuns = @ + 1, !.iterations = @ + 1]
    ELSE [l EXCEPT !.pc = "head", !.bodyRuns = @ + 1, !.iterations = @ + 1, !.i = @ + 1]

\* result.exitCode !== 0 || result.stopReason === "error" || ... "aborted"
ResultIsError(result) ==
    result.exitCode # 0 \/ result.stopReason \in {"error", "aborted"}

\* runSingleAgent up to its await: the process is spawned with the task, and
\* killed at once when the signal is aborted already
Spawn(r, task, aborted) ==
    [r EXCEPT !.proc = "running", !.wasAborted = aborted, !.spawned = @ + 1,
              !.tasks = Append(@, task)]

\* step k of the chain begins: its task is made, and its agent is looked up
\* (an unknown agent gives a result with exit code 1 and no process)
ChainStepBegins(l, r, k) ==
    LET task == ReplacePrevious(r.chain[k].task, r.previousOutput)
        at == [r EXCEPT !.step = k]
    IN  IF ~r.chain[k].known
        THEN [loop |-> IterationDone(l, r, TRUE),
              run |-> [at EXCEPT !.tasks = Append(@, task), !.proc = "none",
                                 !.failedAt = k]]
        ELSE [loop |-> [l EXCEPT !.pc = "exec"], run |-> Spawn(at, task, l.aborted)]

\* executeSubagentOnce is called: up to its first await
ExecStart ==
    /\ loop.pc = "body"
    /\ CASE run.mode = "single" ->
              /\ IF ~run.known
                 THEN /\ loop' = IterationDone(loop, run, TRUE)
                      /\ run' = [run EXCEPT !.tasks = <<>>, !.outputs = <<>>]
                 ELSE /\ loop' = [loop EXCEPT !.pc = "exec"]
                      /\ run' = Spawn([run EXCEPT !.tasks = <<>>, !.outputs = <<>>],
                                      <<"t">>, loop.aborted)
              /\ pool' = pool
         [] run.mode = "chain" ->
              LET fresh == [run EXCEPT !.tasks = <<>>, !.outputs = <<>>,
                                       !.previousOutput = <<>>, !.failedAt = 0]
                  got == ChainStepBegins(loop, fresh, 1)
              IN  /\ loop' = got.loop
                  /\ run' = got.run
                  /\ pool' = pool
         [] OTHER ->
              /\ loop' = [loop EXCEPT !.pc = "exec"]
              /\ pool' = PoolStarted([pool EXCEPT !.aborted = loop.aborted])
              /\ run' = run
    /\ UNCHANGED NotRalph

\* the abort signal fires while a subagent process runs or during the sleep:
\* killProc of every running process, cancel of the sleep
ExecAbort ==
    /\ ~loop.aborted
    /\ \/ /\ loop.pc = "exec"
          /\ IF run.mode = "parallel" THEN Running(pool) # {} ELSE run.proc = "running"
       \/ loop.pc = "sleep"
    /\ loop' = [loop EXCEPT !.aborted = TRUE]
    /\ run' = [run EXCEPT !.wasAborted = (run.proc = "running"),
                          !.abortAt = loop.pc,
                          !.atAbort = [condRuns |-> loop.condRuns,
                                       spawned |-> TotalSpawned]]
    /\ pool' = IF run.mode = "parallel" /\ loop.pc = "exec"
               THEN [pool EXCEPT !.aborted = TRUE] ELSE pool
    /\ UNCHANGED NotRalph

\* the process of single or chain mode closes: runSingleAgent throws when it
\* was killed and returns its result otherwise; the chain goes on to its next
\* step or returns
ExecProcClose ==
    /\ loop.pc = "exec"
    /\ run.proc = "running"
    /\ \E result \in ProcOutcomes :
        LET closed == [run EXCEPT !.proc = "none",
                                  !.outputs = Append(@, getFinalOutput(result.messages))]
        IN  IF run.wasAborted
            THEN /\ loop' = IterationThrew(loop)
                 /\ run' = [run EXCEPT !.proc = "none"]
            ELSE IF ResultIsError(result)
            THEN /\ loop' = IterationDone(loop, run, TRUE)
                 /\ run' = [closed EXCEPT !.failedAt = run.step]
            ELSE IF run.mode = "chain" /\ run.step < Len(run.chain)
            THEN LET got == ChainStepBegins(
                                loop,
                                [closed EXCEPT
                                    !.previousOutput = getFinalOutput(result.messages)],
                                run.step + 1)
                 IN  /\ loop' = got.loop
                     /\ run' = got.run
            ELSE /\ loop' = IterationDone(loop, run, FALSE)
                 /\ run' = closed
    /\ UNCHANGED <<pool, NotRalph>>

\* mapWithConcurrencyLimit has settled: parallel mode returns its result (it
\* sets no isError), or the rejection is thrown on to the loop
ExecParallelReturn ==
    /\ loop.pc = "exec"
    /\ run.mode = "parallel"
    /\ pool.pc \in {"resolved", "rejected"}
    /\ loop' = IF pool.pc = "rejected" THEN IterationThrew(loop)
               ELSE IterationDone(loop, run, FALSE)
    /\ run' = [run EXCEPT !.spawned = @ + pool.started]
    /\ pool' = [NoPool EXCEPT !.n = pool.n, !.unknown = pool.unknown]
    /\ UNCHANGED NotRalph

\* the sleep between iterations ends, by its timer or by the abort
SleepEnd ==
    /\ loop.pc = "sleep"
    /\ loop' = [loop EXCEPT !.pc = "head", !.i = @ + 1]
    /\ UNCHANGED <<pool, run, NotRalph>>

\* ==========================================================================
\* Properties of the closest-checkpoint selection
\* ==========================================================================
\* C1: on a non-empty list the selection returns a checkpoint of the list with
\* the largest timestamp among those at or before the target T; if none is at
\* or before T, one with the smallest timestamp. The timestamp of the result is
\* the same for every ordering of the list.
C1_ClosestSelection ==
    closest # NoneRec =>
        LET n == Len(checkpoints)
            atOrBefore == {i \in 1..n : checkpoints[i].timestamp <= targetTs}
        IN  /\ closest \in Range(checkpoints)
            /\ atOrBefore # {} =>
                  /\ closest.timestamp <= targetTs
                  /\ \A i \in atOrBefore : checkpoints[i].timestamp <= closest.timestamp
            /\ atOrBefore = {} =>
                  \A i \in 1..n : closest.timestamp <= checkpoints[i].timestamp
            /\ \A p \in Permutations(1..n) :
                  findClosestCheckpoint([i \in 1..n |-> checkpoints[p[i]]], targetTs).timestamp
                      = closest.timestamp

\* C1 witness: the selection returned an earlier checkpoint although a later
\* one of the list is strictly nearer to the target.
C1_Witness ==
    /\ closest # NoneRec
    /\ closest.timestamp < targetTs
    /\ \E i \in 1..Len(checkpoints) :
          /\ checkpoints[i].timestamp > targetTs
          /\ checkpoints[i].timestamp - targetTs < targetTs - closest.timestamp

\* ==========================================================================
\* Properties of the bash permission gate
\* ==========================================================================
\* C2: a bash call whose command matches the denylist proceeds only after the
\* dangerous-command prompt was shown for it and the user chose "Allow once".
C2_DenylistedNeverAutoAllowed ==
    (gatePc = "done" /\ matchesDenylist(command) /\ gateResult = "allow")
        => (gatePrompt = "dangerous" /\ gateChoice = "Allow once")

\* The safe-pipeline grammar in the claim's words: two or three segments, the
\* first beginning with an allowlisted command, every later one with a safe
\* pipe target.
SafePipelineGrammar(cmd) ==
    LET segs == Segments(cmd)
    IN  /\ Len(segs) \in {2, 3}
        /\ Len(segs[1]) > 0 /\ segs[1][1] \in ALLOWLIST_WORDS
        /\ \A i \in 2..Len(segs) : Len(segs[i]) > 0 /\ segs[i][1] \in SAFE_PIPE_WORDS

\* C5: a command containing a pipe is classified read-only (required level off,
\* allowed without a prompt at level Off) only if it follows the safe-pipeline
\* grammar.
C5_PipeReadOnlyOnlyIfSafe ==
    (/\ gatePc = "done"
     /\ IncludesPipe(command)
     /\ \/ getLevelForBashCommand(command) = "off"
        \/ (levelAtCall = "off" /\ gateResult = "allow" /\ gatePrompt = "none"))
        => SafePipelineGrammar(command)

\* C6, as stated: a command neither allowlisted nor denylisted is allowed
\* without a prompt exactly when its required level is at or below the current
\* level; otherwise the gate prompts and the prompt offers the escalation to the
\* required level. Allowlisted commands are allowed without a prompt.
C6_LevelDecisionAsStated ==
    gatePc = "done" =>
        LET required == getLevelForBashCommand(command)
            permitted == LevelIndex(required) <= LevelIndex(levelAtCall)
            autoAllowed == gateResult = "allow" /\ gatePrompt = "none"
        IN  /\ isInAllowlist(command) => autoAllowed
            /\ (~isInAllowlist(command) /\ ~matchesDenylist(command)) =>
                  /\ autoAllowed <=> permitted
                  /\ ~permitted =>
                        /\ gatePrompt = "permission"
                        /\ AllowAllLabel(required) \in Range(gateOptions)

\* C6, amended: the same, except that without a UI a command above the current
\* level is blocked without a prompt instead of prompting.
C6_LevelDecision ==
    gatePc = "done" =>
        LET required == getLevelForBashCommand(command)
            permitted == LevelIndex(required) <= LevelIndex(levelAtCall)
            autoAllowed == gateResult = "allow" /\ gatePrompt = "none"
        IN  /\ isInAllowlist(command) => autoAllowed
            /\ (~isInAllowlist(command) /\ ~matchesDenylist(command)) =>
                  /\ autoAllowed <=> permitted
                  /\ (~permitted /\ hasUI) =>
                        /\ gatePrompt = "permission"
                        /\ AllowAllLabel(required) \in Range(gateOptions)
                  /\ (~permitted /\ ~hasUI) =>
                        /\ gatePrompt = "none"
                        /\ gateResult = "block"

\* C6 witness: a dev command arrived at level low with a UI, the gate prompted
\* and the user took the escalation to Medium.
C6_Witness ==
    /\ gatePc = "done"
    /\ ~isInAllowlist(command) /\ ~matchesDenylist(command)
    /\ getLevelForBashCommand(command) = "medium"
    /\ levelAtCall = "low"
    /\ gatePrompt = "permission"
    /\ gateChoice = "Allow all (Medium)"
    /\ gateResult = "allow"

\* ==========================================================================
\* Properties of the checkpoint core
\* ==========================================================================
\* C4: the checkpoint loaded from the ref of a created checkpoint equals the
\* created one in all seven fields.
C4_RoundTrip ==
    loaded # NoCheckpoint =>
        /\ loaded.id = created.id
        /\ loaded.turnIndex = created.turnIndex
        /\ loaded.sessionId = created.sessionId
        /\ loaded.headSha = created.headSha
        /\ loaded.indexTreeSha = created.indexTreeSha
        /\ loaded.worktreeTreeSha = created.worktreeTreeSha
        /\ loaded.timestamp = created.timestamp

\* C7: after restoreCheckpoint completed, the index is the recorded index tree,
\* the working tree the recorded worktree tree and HEAD the recorded head.
C7_RestoreMatchesCheckpoint ==
    restoreStatus = "ok" =>
        /\ repo.index = restoreCp.indexTreeSha
        /\ repo.worktree = restoreCp.worktreeTreeSha
        /\ repo.head = restoreCp.headSha

\* C8: two runs of restoreCheckpoint in a row leave the repository that one
\* run leaves.
C8_RestoreIdempotent ==
    (restoreStatus = "ok" /\ restoreCount = 2) => repo = afterFirst

\* ==========================================================================
\* Properties of the checkpoint extension
\* ==========================================================================
\* C3: a restore is preceded by a successful before-restore checkpoint of the
\* state it is about to overwrite: if restoreCheckpoint was invoked, the ref
\* <session>-before-restore-<now> exists and records the repository as it was
\* before the restore; if that checkpoint could not be created, the restore
\* was not invoked and the working tree is as it was.
C3_BeforeRestoreFirst ==
    restoreLog.ran =>
        /\ restoreLog.restoreInvoked =>
            /\ restoreLog.beforeCreated
            /\ restoreLog.beforeId \in DOMAIN refs
            /\ LET saved == loadCheckpointFromRef(refs, restoreLog.beforeId)
               IN  /\ saved # NullCheckpoint =>
                        /\ saved.worktreeTreeSha = WriteWorktreeTree(restoreLog.repoBefore)
                        /\ saved.indexTreeSha = WriteTree(restoreLog.repoBefore)
                        /\ saved.headSha = RevParseHead(restoreLog.repoBefore)
                   /\ refs[restoreLog.beforeId].tree = WriteWorktreeTree(restoreLog.repoBefore)
        /\ ~restoreLog.beforeCreated =>
            /\ ~restoreLog.restoreInvoked
            /\ restoreLog.repoAfter = restoreLog.repoBefore
            /\ restoreLog.beforeId \notin DOMAIN refs

\* a restore ran after its before-restore checkpoint and changed the files
C3_Witness ==
    /\ restoreLog.ran /\ restoreLog.beforeCreated /\ restoreLog.restoreInvoked
    /\ restoreLog.repoAfter.worktree # restoreLog.repoBefore.worktree

\* C9 as stated: the checkpoint a turn_start creates has the id
\* <sessionId>-turn-<turnIndex>-<timestamp> and the sessionId of the session
\* that was current when the event was handled.
C9_TurnCheckpointOfEventSession ==
    \A i \in 1..Len(turnTasks) :
        turnTasks[i].pc = "done" =>
            /\ turnTasks[i].created.id =
                   TurnId(turnTasks[i].sessionAtEvent, turnTasks[i].turnIndex,
                          turnTasks[i].timestamp)
            /\ turnTasks[i].created.sessionId = turnTasks[i].sessionAtEvent

\* C10: checkpoints are only added: no step removes a checkpoint ref or makes
\* an existing ref point to another commit.
C10_RefsOnlyGrow ==
    [][\A id \in DOMAIN refs : id \in DOMAIN refs' /\ refs'[id] = refs[id]]_vars

\* a turn checkpoint and a before-restore checkpoint exist side by side after
\* a restore
C10_Witness ==
    /\ restoreLog.restoreInvoked
    /\ Cardinality(DOMAIN refs) >= 2
    /\ \E i \in 1..Len(turnTasks) :
        turnTasks[i].pc = "done" /\ turnTasks[i].created.id \in DOMAIN refs

\* C11: outside of a git repository no step changes the refs, the files, the
\* extension state, the turn checkpoints, the preload, the restore prompt or
\* the restore record: every handler returns without effect.
C11_NoGitNoEffect ==
    [][~isRepo =>
          /\ state' = state /\ ~state.gitAvailable
          /\ refs' = refs /\ repo' = repo
          /\ turnTasks' = turnTasks /\ preload' = preload
          /\ prompt' = prompt /\ restoreLog' = restoreLog]_vars

\* after a session_start outside of a repository all five handlers ran and
\* returned at their first line
C11_Witness ==
    /\ ~isRepo
    /\ returnedEarly = {"session_start", "turn_start", "session_switch", "session_fork",
                        "session_before_fork", "session_before_tree"}
    /\ turnTasks = <<>> /\ prompt = NoPrompt /\ refs = NoRefs

\* C14: when the before-restore checkpoint or the restore failed, the prompt
\* handler has returned and the user got exactly one notification from it, the
\* error 'Restore failed', and no success notification.
C14_OneErrorNotification ==
    (/\ restoreLog.ran /\ restoreLog.promptNo = prompt.count
     /\ (~restoreLog.beforeCreated \/ ~restoreLog.restoreCompleted)) =>
        /\ prompt.handler = "done"
        /\ prompt.notes = <<"error: Restore failed">>
        /\ prompt.result \in {"undefined", "cancel", "skipConversationRestore"}

\* a restore that failed half way, after its before-restore checkpoint
C14_Witness ==
    /\ restoreLog.ran /\ restoreLog.promptNo = prompt.count
    /\ restoreLog.beforeCreated /\ restoreLog.restoreInvoked /\ ~restoreLog.restoreCompleted
    /\ prompt.handler = "done"

\* ==========================================================================
\* Properties of loadAllCheckpoints
\* ==========================================================================
\* the message holds a value for each of the five required keys
CarriesAllFields(obj) ==
    /\ obj.message.sessionId # <<>> /\ obj.message.turn # <<>>
    /\ obj.message.head # <<>> /\ obj.message.indexTree # <<>>
    /\ obj.message.worktreeTree # <<>>

Loadable(name) ==
    /\ refs[name].kind = "commit"
    /\ CarriesAllFields(refs[name])
    /\ (loadJob.sessionFilter = NoFilter \/ refs[name].message.sessionId = loadJob.sessionFilter)

\* C12: a finished load returns exactly one checkpoint for every ref whose
\* commit can be read, whose message has all of sessionId, turn, head,
\* index-tree and worktree-tree and that passes the session filter, and nothing
\* for any other ref.
C12_LoadsExactlyTheReadableRefs ==
    loadJob.pc = "done" =>
        /\ \A k \in 1..Len(loadJob.results) :
            /\ loadJob.results[k].id \in DOMAIN refs
            /\ Loadable(loadJob.results[k].id)
            /\ loadJob.results[k].sessionId = refs[loadJob.results[k].id].message.sessionId
        /\ \A name \in DOMAIN refs :
            Loadable(name) =>
                Cardinality({k \in 1..Len(loadJob.results) : loadJob.results[k].id = name}) = 1

\* a load finished that kept a ref and left out an unreadable one and one
\* without a field
C12_Witness ==
    /\ loadJob.pc = "done"
    /\ Len(loadJob.results) >= 1
    /\ \E name \in DOMAIN refs : refs[name].kind # "commit"
    /\ \E name \in DOMAIN refs : refs[name].kind = "commit" /\ ~CarriesAllFields(refs[name])

MAX_SAFE_INTEGER_TEXT ==
    <<"9", "0", "0", "7", "1", "9", "9", "2", "5", "4", "7", "4", "0", "9", "9", "1">>

\* C16 as stated: without maxIterations the loop's limit is
\* Number.MAX_SAFE_INTEGER.
C16_DefaultLimitIsMaxSafeInteger ==
    (loop.param = Omitted /\ loop.pc # "call") =>
        NumberText(loop.maxIterations) = MAX_SAFE_INTEGER_TEXT

LoopStopReasons == {"aborted", "condition-false", "error", "max-iterations"}

\* what C31 says of a call that has returned from the loop
LoopEnded ==
    /\ loop.stopReason \in LoopStopReasons
    /\ (loop.stopReason = "max-iterations") <=>
           (/\ loop.iterations = loop.maxIterations
            /\ loop.condRuns = loop.maxIterations
            /\ loop.errors = 0)

\* a step after an iteration reported an error, or after the loop ended on an
\* error or a throw, runs neither a condition check nor a subagent
NothingAfterError ==
    (loop.errors > 0 \/ loop.stopReason \in {"error", "aborted"}) =>
        /\ loop'.condRuns = loop.condRuns
        /\ loop'.bodyRuns = loop.bodyRuns
        /\ loop'.iterations = loop.iterations

C32_AbortStopsTheLoop ==
    run.abortAt \in {"exec", "sleep"} =>
        /\ loop.condRuns = run.atAbort.condRuns
        /\ TotalSpawned = run.atAbort.spawned
        /\ loop.pc = "done" => (loop.stopReason = "aborted" /\ loop.isError)

\* a parallel call was aborted while tasks were still waiting for a worker,
\* and has returned
C32_Witness ==
    /\ run.mode = "parallel" /\ run.abortAt = "exec"
    /\ pool.n > MAX_CONCURRENCY /\ pool.unknown = {}
    /\ run.atAbort.spawned < pool.n
    /\ loop.pc = "done" /\ loop.stopReason = "aborted"

\* the template with every placeholder replaced by the text as it is
RECURSIVE LiteralPrevious(_, _)
LiteralPrevious(task, text) ==
    IF Len(task) = 0 THEN <<>>
    ELSE (IF task[1] = "{previous}" THEN text ELSE <<task[1]>>)
         \o LiteralPrevious(Tail(task), text)

\* C33 as stated: in chain mode a step starts only after the step before it
\* has finished, its task is its template with every '{previous}' replaced by
\* the final assistant text of the step before (empty for the first step), and
\* after a failed step no later step runs and the iteration is reported as an
\* error.
C33_ChainStepsInOrder ==
    run.mode = "chain" =>
        /\ Len(run.tasks) <= Len(run.outputs) + 1
        /\ run.proc = "running" => Len(run.tasks) = Len(run.outputs) + 1
        /\ \A k \in 1..Len(run.tasks) :
              run.tasks[k] = LiteralPrevious(run.chain[k].task,
                                             IF k = 1 THEN <<>> ELSE run.outputs[k - 1])
        /\ run.failedAt > 0 =>
              /\ Len(run.tasks) = run.failedAt
              /\ run.proc = "none"
              /\ loop.pc = "done" /\ loop.stopReason = "error" /\ loop.errors = 1

\* C17: the number of running subagent processes never exceeds MAX_CONCURRENCY
\* nor the number of tasks, and after the start of the call a process is
\* started only in a step in which one has finished.
C17_BoundedConcurrency ==
    /\ [](/\ Cardinality(Running(pool)) <= MAX_CONCURRENCY
          /\ Cardinality(Running(pool)) <= pool.n
          /\ pool.started - pool.finished = Cardinality(Running(pool)))
    /\ [][(pool.pc # "call" /\ pool'.started > pool.started) =>
              pool'.finished > pool.finished]_vars

\* more tasks than workers, all workers busy, and one worker on its second task
C17_Witness ==
    /\ pool.n > MAX_CONCURRENCY
    /\ Cardinality(Running(pool)) = MAX_CONCURRENCY
    /\ pool.started > MAX_CONCURRENCY

\* C18: after a call that arrived at level High, a bash command that does not
\* match the denylist, and a write or edit of any path, was allowed and no
\* prompt was shown.
C18_HighAllowsWithoutPrompt ==
    (/\ gatePc = "done"
     /\ levelAtCall = "high"
     /\ (toolName = "bash" => ~matchesDenylist(command)))
    => (gateResult = "allow" /\ gatePrompt = "none")

\* C19: a bash call whose command was last answered 'Always block' is blocked
\* with 'Previously denied this session' and shows no prompt; one whose command
\* was last answered 'Allow once' or 'Block' shows the dangerous-command prompt
\* again; and answering 'Allow once' or 'Block' leaves the denied set as it was.
C19_AlwaysBlockSticks ==
    [][(gatePc' = "done" /\ toolName' = "bash") =>
        /\ (command' \in DOMAIN answered /\ answered[command'] = "Always block")
              => /\ gateResult' = "block"
                 /\ gateReason' = "Previously denied this session"
                 /\ gatePrompt' = "none"
        /\ (command' \in DOMAIN answered /\ answered[command'] \in {"Allow once", "Block"})
              => gatePrompt' = "dangerous"
        /\ (gatePrompt' = "dangerous" /\ gateChoice' \in {"Allow once", "Block"})
              => sessionDeniedCommands' = sessionDeniedCommands]_vars

\* a later call of a command answered 'Always block' has been blocked
C19_Witness ==
    /\ gatePc = "done"
    /\ toolName = "bash"
    /\ command \in DOMAIN answered
    /\ answered[command] = "Always block"
    /\ gateReason = "Previously denied this session"

\* the 'Allow all (...)' labels
AllowAllLabels == {AllowAllLabel(l) : l \in Levels}

\* C20: a call answered 'Allow all (L)' sets the level to the required level of
\* its operation (High for a protected path), which is strictly above the level
\* before, saves it and is allowed; a call answered 'Allow once' or 'Block'
\* leaves the level and the saved level as they were.
C20_AllowAllEscalates ==
    [][(gatePc' = "done" /\ gatePrompt' # "none") =>
        LET L == IF gatePrompt' = "protected" THEN "high"
                 ELSE IF toolName' = "bash" THEN getLevelForBashCommand(command')
                 ELSE IF isWithinProjectDir(filePath', Cwd) THEN "low" ELSE "high"
        IN  /\ gateChoice' \in AllowAllLabels =>
                  /\ gateChoice' = AllowAllLabel(L)
                  /\ autonomyLevel' = L
                  /\ LevelIndex(L) > LevelIndex(autonomyLevel)
                  /\ savedLevel' = L
                  /\ gateResult' = "allow"
            /\ gateChoice' \in {"Allow once", "Block"} =>
                  /\ autonomyLevel' = autonomyLevel
                  /\ savedLevel' = savedLevel]_vars

\* a call has been answered 'Allow all (...)' and the level went up
C20_Witness ==
    /\ gatePc = "done"
    /\ gateChoice \in AllowAllLabels
    /\ gateResult = "allow"
    /\ LevelIndex(autonomyLevel) > LevelIndex(levelAtCall)
    /\ savedLevel = autonomyLevel

\* C21: a command that holds a chaining construct is neither allowlisted nor
\* read-only nor medium, and when its call arrived at a level below High and was
\* allowed, a prompt was shown.
C21_ChainedNeverAutoAllowed ==
    (\E i \in 1..Len(command) : command[i] \in {"BACKTICK", "&&", "||", "$(", "&", ";"})
    => /\ ~isInAllowlist(command)
       /\ ~isReadOnlyCommand(command)
       /\ ~isMediumCommand(command)
       /\ (gatePc = "done" /\ levelAtCall # "high" /\ gateResult = "allow")
             => gatePrompt # "none"

\* a chained command that starts with an allowlisted word was allowed below
\* High, through the permission prompt
C21_Witness ==
    /\ gatePc = "done"
    /\ Len(command) >= 2 /\ command[1] = "ls" /\ command[2] = "&&"
    /\ levelAtCall = "medium"
    /\ gatePrompt = "permission"
    /\ gateResult = "allow"

\* the level alone lets the bash command pass (README table)
LevelAllowsBash(level, cmd) ==
    \/ level = "high"
    \/ level = "medium" /\ isMediumCommand(cmd)
    \/ isReadOnlyCommand(cmd)

\* the level alone lets the write or edit pass
LevelAllowsWrite(level, path) ==
    IF isProtectedPath(path) THEN level = "high"
    ELSE IF isWithinProjectDir(path, Cwd) THEN level # "off"
    ELSE level = "high"

\* C22: without UI a tool call shows no prompt, is allowed only if the
\* allowlist or the level lets it pass, and leaves the level, the saved level
\* and the denied set as they were.
C22_NoUINeverAllowsPrompted ==
    [][(~hasUI /\ gatePc' = "done") =>
        /\ gatePrompt' = "none"
        /\ gateResult' \in {"allow", "block"}
        /\ gateResult' = "allow" =>
              IF toolName' = "bash"
              THEN \/ isInAllowlist(command')
                   \/ ~matchesDenylist(command') /\ LevelAllowsBash(autonomyLevel, command')
              ELSE LevelAllowsWrite(autonomyLevel, filePath')
        /\ autonomyLevel' = autonomyLevel
        /\ savedLevel' = savedLevel
        /\ sessionDeniedCommands' = sessionDeniedCommands]_vars

\* without UI a dangerous command and a write outside the project were blocked
C22_Witness ==
    /\ ~hasUI
    /\ gatePc = "done"
    /\ gateResult = "block"
    /\ gateReason \in {"Dangerous command blocked (no UI)", "Write blocked (no UI)"}

\* position in the order off < low < medium < high
LevelRank(level) ==
    CASE level = "off" -> 0 [] level = "low" -> 1 [] level = "medium" -> 2
      [] level = "high" -> 3

\* C28: a tool call leaves the level as it was or moves it strictly upward.
C28_LevelNeverDecreases ==
    [][(gatePc \in {"session", "done"} /\ gatePc' = "done") =>
        \/ autonomyLevel' = autonomyLevel
        \/ LevelRank(autonomyLevel') > LevelRank(autonomyLevel)]_vars

\* a write or edit call raised the level from Low to High
C28_Witness ==
    /\ gatePc = "done"
    /\ levelAtCall = "low"
    /\ autonomyLevel = "high"
    /\ toolName \in {"write", "edit"}

\* C23: when the user picked 'Cancel', dismissed the menu or picked
\* 'Conversation only', no saveAndRestore ran for that prompt, the only
\* before-restore checkpoint there can be is that of an earlier prompt, and the
\* files are as they were; Cancel and dismissal return
\* {cancel: true}, 'Conversation only' returns undefined.
C23_RestoreOnlyOnAllOrCode ==
    /\ (prompt.handler = "done" /\
        prompt.picked \in {"Cancel", Undefined, "Conversation only (keep current files)"})
       => /\ ~(restoreLog.ran /\ restoreLog.promptNo = prompt.count)
          /\ \A id \in DOMAIN refs :
                (\E i \in 1..Len(id) : id[i] = "-before-restore-")
                    => /\ restoreLog.ran /\ restoreLog.promptNo < prompt.count
                       /\ id = restoreLog.beforeId
          /\ prompt.result =
                IF prompt.picked = "Conversation only (keep current files)"
                THEN "undefined" ELSE "cancel"
    /\ (restoreLog.ran /\ restoreLog.promptNo = prompt.count)
       => prompt.picked \in {"Restore all (files + conversation)",
                             "Code only (restore files, keep conversation)"}

\* the menu was dismissed while a checkpoint was there to restore
C23_Witness ==
    /\ prompt.handler = "done"
    /\ prompt.picked = Undefined
    /\ prompt.load = "done"
    /\ Len(prompt.candidates) > 0

\* C29: the session id the extension holds is empty or made of letters, digits,
\* underscore and hyphen, and every ref name is made of such characters (the
\* id of a checkpoint is the session id, "-turn-" or "-before-restore-", and
\* digits separated by hyphens).
C29_SessionIdSafe ==
    /\ \A i \in 1..Len(state.currentSessionId) : state.currentSessionId[i] \in SafeIdChars
    /\ \A id \in DOMAIN refs :
          \A i \in 1..Len(id) : id[i] \in SafeIdChars \cup {"-turn-", "-before-restore-"}

\* in the session whose header id is unsafe a checkpoint was created under the
\* id taken from the file name
C29_Witness ==
    /\ hostSession = "s3"
    /\ ~isSafeId(HeaderId(hostSession))
    /\ state.currentSessionId = <<"c">>
    /\ \E id \in DOMAIN refs : id[1] = "c"

\* the id of a session: the id of its header or, when that is no safe id, the
\* uuid of its file name
SessionIdOf(s) ==
    IF \A i \in 1..Len(HeaderId(s)) : HeaderId(s)[i] \in SafeIdChars
    THEN HeaderId(s) ELSE FileNameId(s)

\* the ids of a session and of the sessions it was forked from
RECURSIVE LineageIds(_)
LineageIds(s) ==
    IF s = NoSession THEN {} ELSE {SessionIdOf(s)} \cup LineageIds(ParentSession(s))

\* C24: the checkpoint a restore was run for, and every candidate it was
\* chosen from, has the session id of the session the prompt was opened in or
\* of a session that session was forked from.
C24_RestoreWithinLineage ==
    /\ (restoreLog.ran /\ restoreLog.promptNo = prompt.count)
       => restoreLog.target.sessionId \in LineageIds(prompt.header)
    /\ \A i \in 1..Len(prompt.candidates) :
          prompt.candidates[i].sessionId \in LineageIds(prompt.header)

\* in a fork, the checkpoint of the parent session was restored while the
\* refs held a checkpoint of an unrelated session
C24_Witness ==
    /\ restoreLog.ran
    /\ prompt.header = "s2"
    /\ restoreLog.target.sessionId = <<"a">>
    /\ \E id \in DOMAIN refs : id[1] = "z"

\* C25: when the candidates of a restore prompt are computed, every turn
\* checkpoint creation started before the prompt opened has settled.
C25_LoadAfterEarlierTurnsSettled ==
    [][(prompt.load = "waiting" /\ prompt'.load = "done") =>
        \A i \in 1..prompt.awaited : turnTasks[i].pc \in {"done", "failed"}]_vars

\* C26: the candidates computed for a restore prompt hold every turn
\* checkpoint of the requested sessions whose creation was complete when they
\* were computed.
C26_CandidatesHoldCompletedCheckpoints ==
    [][(prompt.load = "waiting" /\ prompt'.load = "done") =>
        \A i \in 1..Len(turnTasks) :
            (/\ turnTasks[i].pc = "done"
             /\ turnTasks[i].created.sessionId \in Range(ChainSessionIds(state, prompt.header)))
            => \E k \in 1..Len(prompt'.candidates) :
                    prompt'.candidates[k] = turnTasks[i].created]_vars

\* C27 as stated: once checkpointingFailed is true it stays true and no turn
\* checkpoint is created any more.
C27_NoCheckpointAfterFailure ==
    [][state.checkpointingFailed =>
        /\ state'.checkpointingFailed
        /\ \A i \in 1..Len(turnTasks') :
              turnTasks'[i].pc = "done" => (i <= Len(turnTasks) /\ turnTasks[i].pc = "done")]_vars

\* C27: once checkpointingFailed is true it stays true and no turn_start
\* starts the creation of a turn checkpoint any more.
C27_FailureIsPermanent ==
    [][state.checkpointingFailed =>
        /\ state'.checkpointingFailed
        /\ Len(turnTasks') = Len(turnTasks)]_vars

\* a creation has failed, the host has moved to a fork and started the session
\* again
C27_Witness ==
    /\ state.checkpointingFailed
    /\ \E i \in 1..Len(turnTasks) :
          turnTasks[i].pc = "failed" /\ turnTasks[i].sessionAtEvent = <<"a">>
    /\ hostSession = "s2"
    /\ state.currentSessionId = <<"b">>
    /\ preload.pc = "scheduled"
    /\ ~state.checkpointCache.null

\* C30: for every header and every chain of session files, cyclic chains and
\* chains with a missing file included, the parentSession walk of
\* loadSessionChainCheckpoints comes to its end.
C30_WalkTerminates == <>(walk.pc = "done")

\* ==========================================================================
\* Specifications
\* ==========================================================================
InitClosest == ClosestInit /\ GateIdle /\ GitIdle /\ RestoreIdle /\ TripIdle /\ ExtIdle /\ LoadIdle /\ LoopIdle /\ PoolIdle /\ RunIdle

NextClosest == FindClosest

SpecClosest == InitClosest /\ [][NextClosest]_vars

InitBash == BashInit /\ ClosestIdle /\ GitIdle /\ RestoreIdle /\ TripIdle /\ ExtIdle /\ LoadIdle /\ LoopIdle /\ PoolIdle /\ RunIdle

NextBash == ToolCallBash

SpecBash == InitBash /\ [][NextBash]_vars

InitRestore == RestoreInit /\ ClosestIdle /\ GateIdle /\ TripIdle /\ ExtIdle /\ LoadIdle /\ LoopIdle /\ PoolIdle /\ RunIdle

NextRestore == RestoreRun

SpecRestore == InitRestore /\ [][NextRestore]_vars

InitRoundTrip == TripInit /\ ClosestIdle /\ GateIdle /\ RestoreIdle /\ ExtIdle /\ LoadIdle /\ LoopIdle /\ PoolIdle /\ RunIdle

NextRoundTrip == TripCreateTurn \/ TripCreateBeforeRestore \/ TripLoad

SpecRoundTrip == InitRoundTrip /\ [][NextRoundTrip]_vars

\* The checkpoint extension in its host
Init == ExtInit /\ ClosestIdle /\ GateIdle /\ RestoreIdle /\ TripIdle /\ LoadIdle /\ LoopIdle /\ PoolIdle /\ RunIdle

Next ==
    \/ EnvEdit
    \/ SessionStart \/ SessionSwitch \/ SessionFork
    \/ PreloadList \/ PreloadFinish \/ PreloadFail
    \/ TurnStart \/ TurnTaskRun \/ TurnTaskFail
    \/ PromptOpen \/ PromptLoad \/ PromptChoose \/ PromptNoCheckpoints \/ PromptRestore

Spec == Init /\ [][Next]_vars

\* loadAllCheckpoints on its own
InitLoad == LoadInit /\ ClosestIdle /\ GateIdle /\ RestoreIdle /\ TripIdle /\ ExtIdle /\ LoopIdle /\ PoolIdle /\ RunIdle

NextLoad == LoadAll \/ LoadLowList \/ LoadLowBatch \/ LoadLowReturn

SpecLoad == InitLoad /\ [][NextLoad]_vars

\* the ralph_loop loop
InitLoop == LoopInit /\ PoolIdle /\ RunIdle /\ ClosestIdle /\ GateIdle /\ GitIdle /\ RestoreIdle /\ TripIdle /\ ExtIdle /\ LoadIdle

NextLoop == LoopValidate \/ LoopAbort \/ LoopHead \/ LoopBody

SpecLoop == InitLoop /\ [][NextLoop]_vars

\* the worker pool of parallel mode
InitPool == PoolInit /\ LoopIdle /\ RunIdle /\ ClosestIdle /\ GateIdle /\ GitIdle /\ RestoreIdle /\ TripIdle /\ ExtIdle /\ LoadIdle

NextPool == PoolStart \/ PoolAbort \/ ProcessClose \/ PoolSettle

SpecPool == InitPool /\ [][NextPool]_vars

\* the checkpoint extension in a resumed session that stays the host's session,
\* with back-to-back turns
InitResume == ResumeInit /\ ClosestIdle /\ GateIdle /\ RestoreIdle /\ TripIdle /\ LoadIdle /\ LoopIdle /\ PoolIdle /\ RunIdle

NextResume ==
    \/ SessionStart
    \/ PreloadList \/ PreloadFinish \/ PreloadFail
    \/ TurnStartBackToBack \/ TurnTaskRun \/ TurnTaskFail
    \/ PromptOpen \/ PromptLoad \/ PromptChoose \/ PromptNoCheckpoints \/ PromptRestore

SpecResume == InitResume /\ [][NextResume]_vars

\* the session handlers and back-to-back turns, without restore prompts
InitSessions == ResumeInit /\ ClosestIdle /\ GateIdle /\ RestoreIdle /\ TripIdle /\ LoadIdle /\ LoopIdle /\ PoolIdle /\ RunIdle

NextSessions ==
    \/ SessionStart \/ SessionSwitch \/ SessionFork
    \/ PreloadList \/ PreloadFinish \/ PreloadFail
    \/ TurnStartBackToBack \/ TurnTaskRun \/ TurnTaskFail

SpecSessions == InitSessions /\ [][NextSessions]_vars

\* the restore prompt in the sessions of a fork lineage, resumed
InitLineage == ResumeInit /\ ClosestIdle /\ GateIdle /\ RestoreIdle /\ TripIdle /\ LoadIdle /\ LoopIdle /\ PoolIdle /\ RunIdle

NextLineage ==
    \/ SessionStart \/ SessionSwitch \/ SessionFork
    \/ PreloadList \/ PreloadFinish \/ PreloadFail
    \/ TurnStart \/ TurnTaskRun \/ TurnTaskFail
    \/ PromptOpen \/ PromptLoad \/ PromptChoose \/ PromptNoCheckpoints \/ PromptRestore

SpecLineage == InitLineage /\ [][NextLineage]_vars

\* the parentSession walk; the event loop runs a step that can run
InitChain == ChainInit /\ loadJob = NoLoadJob /\ ClosestIdle /\ GateIdle /\ GitIdle /\ RestoreIdle /\ TripIdle /\ ExtIdle /\ LoopIdle /\ PoolIdle /\ RunIdle

NextChain == ChainStart \/ ChainStep \/ ChainRead \/ ChainExit

SpecChain == InitChain /\ [][NextChain]_vars /\ WF_vars(NextChain)

\* a session of the permission gate
\* ralph_loop with its subagent runs in single, chain and parallel mode
InitExec == ExecInit /\ ClosestIdle /\ GateIdle /\ GitIdle /\ RestoreIdle /\ TripIdle /\ ExtIdle /\ LoadIdle

NextExec ==
    \/ LoopValidate \/ LoopAbort \/ LoopHead
    \/ ExecStart \/ ExecAbort \/ ExecProcClose \/ ProcessClose \/ PoolSettle
    \/ ExecParallelReturn \/ SleepEnd

SpecExec == InitExec /\ [][NextExec]_vars

InitGate == GateSessionInit /\ ClosestIdle /\ GitIdle /\ RestoreIdle /\ TripIdle /\ ExtIdle /\ LoadIdle /\ LoopIdle /\ PoolIdle /\ RunIdle

NextGate == GateSessionStart \/ GateBashCall \/ GateWriteCall

SpecGate == InitGate /\ [][NextGate]_vars

====
